---- MODULE Spec2Model ----
(***************************************************************************)
(* Model of the codecanvas core: the DependencyGraph class, the cycle      *)
(* engine (Tarjan SCCs, cycle path reconstruction, self-loops), the        *)
(* suggestion generator, the specifier resolver and analyzeDirectory.      *)
(***************************************************************************)
EXTENDS Integers, Sequences, FiniteSets, TLC

VARIABLES
  graph,         \* the DependencyGraph under construction
  cycles,        \* the list returned by findCycles
  phase,         \* position of the specification's driver
  fs,            \* the regular files that exist (fs.stat(p).isFile())
  dirs,          \* the directories that exist (fs.readdir(p) succeeds)
  contents,      \* the text of each source file, as its statements
  faults,        \* per file: "none", "read" (readFile rejects), "parse" (parser throws)
  options,       \* the AnalyzerOptions of the call
  resolved,      \* the last resolveImport call and its result
  pending,       \* directories whose readdir is in flight
  files,         \* the list filled by discoverFilesConcurrent
  batchStart,    \* the loop variable i of the batch loop
  inflight,      \* files of the current batch whose task has not completed
  started,       \* the files for which a batch task was created, in order
  batchResults,  \* results of the completed tasks of the current batch
  errors,        \* the errors list of analyzeDirectory
  cache,         \* the entries of the ParseCache in use (globalParseCache)
  cacheStats,    \* the hits and misses counters of that ParseCache
  written,       \* per path, the last set() since its last delete() or clear()
  progress,      \* the events passed to options.onProgress, in order
  result,        \* what analyzeDirectory returned, once it has
  query,         \* the last query made on the graph, and its answer
  parserLanguage, \* the grammar set on the module's Parser instance
  calls,         \* the parseFile calls in flight or done: position and outcome
  heap,          \* the node objects and the arrays they refer to
  original,      \* the nodes Map of the graph g: references to node objects
  snapshot,      \* the nodes Map of the data returned by g.toData()
  restored,      \* the nodes Map of the graph returned by fromData
  expected       \* what each of the three holds by the calls made on it

\* the environment of a call: the file tree and the options
envVars == <<fs, dirs, contents, faults, options>>

\* the locals of a running analyzeDirectory call
runVars == <<pending, files, batchStart, inflight, started, batchResults, errors,
             cache, cacheStats, progress, result>>

\* the variables of the resolver and analyzer specifications
analyzerVars == <<envVars, runVars, resolved, written>>

\* the module state of the parser and its calls
parserVars == <<parserLanguage, calls>>

\* a graph, its serialized data and the graph restored from them, as objects
heapVars == <<heap, original, snapshot, restored, expected>>

\* the variables of the query, parser and serialization specifications
moduleVars == <<query, parserVars, heapVars>>

vars == <<graph, cycles, phase, analyzerVars, moduleVars>>

(***************************************************************************)
(* Bounds                                                                  *)
(***************************************************************************)
\* number of edges a graph of the graph specification may hold
MaxEdges == 4

\* number of edges a graph of the cycle specification may hold
MaxCycleEdges == 4

\* file paths used by the graph specification
Paths == {"a", "b", "c"}

\* file paths used by the cycle specification
CyclePaths == {"a", "b", "c", "d"}

(***************************************************************************)
(* Array helpers (Array.prototype.includes / filter / push)                *)
(***************************************************************************)
Range(s) == {s[i] : i \in DOMAIN s}

Includes(s, x) == \E i \in DOMAIN s : s[i] = x

FilterOut(s, x) == SelectSeq(s, LAMBDA d : d # x)

Min(a, b) == IF a < b THEN a ELSE b

\* Map.set on a Map modelled as a function
MapSet(m, k, val) == [x \in (DOMAIN m) \cup {k} |-> IF x = k THEN val ELSE m[x]]

EmptyMap == [x \in {} |-> 0]

(***************************************************************************)
(* DependencyGraph: `nodes` is a Map<string, DependencyNode>, modelled as  *)
(* the sequence of its entries in insertion order.                         *)
(***************************************************************************)
NewGraph(rootDir) == [nodes |-> <<>>, rootDir |-> rootDir]

NodeIndex(g, filePath) ==
  IF \E i \in DOMAIN g.nodes : g.nodes[i].filePath = filePath
  THEN CHOOSE i \in DOMAIN g.nodes : g.nodes[i].filePath = filePath
  ELSE 0

hasNode(g, filePath) == NodeIndex(g, filePath) # 0

getNodes(g) == [i \in DOMAIN g.nodes |-> g.nodes[i].filePath]

getDependencies(g, filePath) ==
  IF hasNode(g, filePath) THEN g.nodes[NodeIndex(g, filePath)].dependencies ELSE <<>>

getDependents(g, filePath) ==
  IF hasNode(g, filePath) THEN g.nodes[NodeIndex(g, filePath)].dependents ELSE <<>>

hasEdge(g, from, to) ==
  IF hasNode(g, from) THEN Includes(g.nodes[NodeIndex(g, from)].dependencies, to) ELSE FALSE

RECURSIVE SumDeps(_, _)
SumDeps(nodes, i) ==
  IF i > Len(nodes) THEN 0 ELSE Len(nodes[i].dependencies) + SumDeps(nodes, i + 1)

edgeCount(g) == SumDeps(g.nodes, 1)

nodeCount(g) == Len(g.nodes)

addNode(g, filePath) ==
  IF ~hasNode(g, filePath)
  THEN [g EXCEPT !.nodes = Append(@, [filePath |-> filePath,
                                      dependencies |-> <<>>,
                                      dependents |-> <<>>])]
  ELSE g

\* mutant of addEdge: the reverse adjacency list is not updated
addEdgeNoDependents(g, from, to) ==
  LET g2 == addNode(addNode(g, from), to)
      fi == NodeIndex(g2, from)
  IN  IF ~Includes(g2.nodes[fi].dependencies, to)
      THEN [g2 EXCEPT !.nodes[fi].dependencies = Append(@, to)]
      ELSE g2

\* mutant of addEdge: both lists are appended to without the includes test
addEdgeAlwaysPush(g, from, to) ==
  LET g2 == addNode(addNode(g, from), to)
      fi == NodeIndex(g2, from)
      ti == NodeIndex(g2, to)
      g3 == [g2 EXCEPT !.nodes[fi].dependencies = Append(@, to)]
  IN  [g3 EXCEPT !.nodes[ti].dependents = Append(@, from)]

addEdge(g, from, to) ==
  LET g2 == addNode(addNode(g, from), to)
      fi == NodeIndex(g2, from)
      ti == NodeIndex(g2, to)
      g3 == IF ~Includes(g2.nodes[fi].dependencies, to)
            THEN [g2 EXCEPT !.nodes[fi].dependencies = Append(@, to)]
            ELSE g2
  IN  IF ~Includes(g3.nodes[ti].dependents, from)
      THEN [g3 EXCEPT !.nodes[ti].dependents = Append(@, from)]
      ELSE g3

\* the Map entry of filePath is deleted; the others keep their order
MapDelete(nodes, filePath) == SelectSeq(nodes, LAMBDA n : n.filePath # filePath)

\* mutant of removeNode: only the dependents' dependency lists are scrubbed
removeNodeHalfScrub(g, filePath) ==
  IF ~hasNode(g, filePath) THEN g
  ELSE
    LET node == g.nodes[NodeIndex(g, filePath)]
        scrub1 == [i \in DOMAIN g.nodes |->
                     IF Includes(node.dependents, g.nodes[i].filePath)
                     THEN [g.nodes[i] EXCEPT !.dependencies = FilterOut(@, filePath)]
                     ELSE g.nodes[i]]
    IN  [g EXCEPT !.nodes = MapDelete(scrub1, filePath)]

removeNode(g, filePath) ==
  IF ~hasNode(g, filePath) THEN g
  ELSE
    LET node == g.nodes[NodeIndex(g, filePath)]
        \* first loop: every dependent present in the map loses filePath
        \* from its dependencies
        scrub1 == [i \in DOMAIN g.nodes |->
                     IF Includes(node.dependents, g.nodes[i].filePath)
                     THEN [g.nodes[i] EXCEPT !.dependencies = FilterOut(@, filePath)]
                     ELSE g.nodes[i]]
        node1 == scrub1[NodeIndex(g, filePath)]
        \* second loop: every dependency present in the map loses filePath
        \* from its dependents
        scrub2 == [i \in DOMAIN scrub1 |->
                     IF Includes(node1.dependencies, scrub1[i].filePath)
                     THEN [scrub1[i] EXCEPT !.dependents = FilterOut(@, filePath)]
                     ELSE scrub1[i]]
    IN  [g EXCEPT !.nodes = MapDelete(scrub2, filePath)]

removeEdge(g, from, to) ==
  LET fi == NodeIndex(g, from)
      g1 == IF fi # 0
            THEN [g EXCEPT !.nodes[fi].dependencies = FilterOut(@, to)]
            ELSE g
      ti == NodeIndex(g1, to)
  IN  IF ti # 0
      THEN [g1 EXCEPT !.nodes[ti].dependents = FilterOut(@, from)]
      ELSE g1

clear(g) == [g EXCEPT !.nodes = <<>>]

\* the for loop of the transitive queries: every entry of the list not yet
\* visited is added to visited and pushed; ws = [visited, stack]
RECURSIVE pushUnvisited(_, _, _)
pushUnvisited(list, i, ws) ==
  IF i > Len(list) THEN ws
  ELSE pushUnvisited(list, i + 1,
                     IF list[i] \in ws.visited THEN ws
                     ELSE [visited |-> ws.visited \cup {list[i]},
                           stack |-> Append(ws.stack, list[i])])

\* while (stack.length > 0) of getTransitiveDependencies
RECURSIVE transitiveDependenciesLoop(_, _)
transitiveDependenciesLoop(g, ws) ==
  IF Len(ws.stack) = 0 THEN ws.visited
  ELSE LET current == ws.stack[Len(ws.stack)]
           popped == [ws EXCEPT !.stack = SubSeq(@, 1, Len(@) - 1)]
       IN  transitiveDependenciesLoop(
             g, pushUnvisited(getDependencies(g, current), 1, popped))

\* mutant of getTransitiveDependencies: the origin starts as visited
getTransitiveDependenciesSkipOrigin(g, filePath) ==
  transitiveDependenciesLoop(g, [visited |-> {filePath}, stack |-> <<filePath>>])

getTransitiveDependencies(g, filePath) ==
  transitiveDependenciesLoop(g, [visited |-> {}, stack |-> <<filePath>>])

\* while (stack.length > 0) of getTransitiveDependents
RECURSIVE transitiveDependentsLoop(_, _)
transitiveDependentsLoop(g, ws) ==
  IF Len(ws.stack) = 0 THEN ws.visited
  ELSE LET current == ws.stack[Len(ws.stack)]
           popped == [ws EXCEPT !.stack = SubSeq(@, 1, Len(@) - 1)]
       IN  transitiveDependentsLoop(
             g, pushUnvisited(getDependents(g, current), 1, popped))

getTransitiveDependents(g, filePath) ==
  transitiveDependentsLoop(g, [visited |-> {}, stack |-> <<filePath>>])

(***************************************************************************)
(* Strings: a string is the sequence of its tokens.  A token is a path     *)
(* separator "/", a file or directory name, a dot segment "." or "..", the *)
(* wildcard "*", or an extension with its leading dot (".ts").             *)
(***************************************************************************)
\* tokens whose first character is "."
DotTokens == {".", "..", ".ts", ".tsx", ".js", ".jsx", ".mjs", ".cjs", ".mts", ".cts", ".json"}

\* tokens whose first character is "@"
AtTokens == {"@", "@org"}

StartsWith(str, prefix) ==
  Len(str) >= Len(prefix) /\ SubSeq(str, 1, Len(prefix)) = prefix

EndsWith(str, suffix) ==
  Len(str) >= Len(suffix) /\ SubSeq(str, Len(str) - Len(suffix) + 1, Len(str)) = suffix

\* str.slice(n)
SliceFrom(str, n) == SubSeq(str, n + 1, Len(str))

\* str.slice(0, -n)
DropLast(str, n) == SubSeq(str, 1, Len(str) - n)

StartsWithDot(str) == Len(str) > 0 /\ str[1] \in DotTokens

StartsWithAt(str) == Len(str) > 0 /\ str[1] \in AtTokens

IncludesSlash(str) == \E i \in DOMAIN str : str[i] = "/"

\* path.isAbsolute
isAbsolute(str) == Len(str) > 0 /\ str[1] = "/"

\* str.split('/'): the segments between the separators
RECURSIVE SplitFrom(_, _, _, _)
SplitFrom(str, i, cur, acc) ==
  IF i > Len(str) THEN Append(acc, cur)
  ELSE IF str[i] = "/" THEN SplitFrom(str, i + 1, <<>>, Append(acc, cur))
  ELSE SplitFrom(str, i + 1, Append(cur, str[i]), acc)

Split(str) == SplitFrom(str, 1, <<>>, <<>>)

\* path normalisation: empty and "." segments are dropped, ".." removes the
\* segment before it (and is dropped at the root)
RECURSIVE NormalizeSegments(_, _, _)
NormalizeSegments(segs, i, acc) ==
  IF i > Len(segs) THEN acc
  ELSE IF segs[i] = <<>> \/ segs[i] = <<".">> THEN NormalizeSegments(segs, i + 1, acc)
  ELSE IF segs[i] = <<"..">>
  THEN NormalizeSegments(segs, i + 1,
                         IF Len(acc) > 0 THEN SubSeq(acc, 1, Len(acc) - 1) ELSE acc)
  ELSE NormalizeSegments(segs, i + 1, Append(acc, segs[i]))

RECURSIVE JoinAbsolute(_, _)
JoinAbsolute(segs, i) ==
  IF i > Len(segs) THEN <<>>
  ELSE <<"/">> \o segs[i] \o JoinAbsolute(segs, i + 1)

\* an absolute path from its segments
AbsolutePath(segs) == IF Len(segs) = 0 THEN <<"/">> ELSE JoinAbsolute(segs, 1)

\* path.resolve(base, rel) for an absolute base
pathResolve(base, rel) ==
  IF isAbsolute(rel)
  THEN AbsolutePath(NormalizeSegments(Split(rel), 1, <<>>))
  ELSE AbsolutePath(NormalizeSegments(Split(base \o <<"/">> \o rel), 1, <<>>))

\* path.join(dir, name) for an absolute dir
pathJoin(dir, name) ==
  AbsolutePath(NormalizeSegments(Split(dir \o <<"/">> \o name), 1, <<>>))

\* path.dirname of an absolute path
pathDirname(filePath) ==
  LET segs == NormalizeSegments(Split(filePath), 1, <<>>)
  IN  AbsolutePath(SubSeq(segs, 1, Len(segs) - 1))

\* path.basename
pathBasename(filePath) ==
  LET segs == Split(filePath) IN segs[Len(segs)]

\* path.extname(name).toLowerCase(): the extension token that ends the last
\* segment, "" (the empty string) when there is none or the name is only it
pathExtname(filePath) ==
  LET base == pathBasename(filePath)
  IN  IF Len(base) >= 2 /\ base[Len(base)] \in DotTokens \ {".", ".."}
      THEN <<base[Len(base)]>>
      ELSE <<>>

(***************************************************************************)
(* Specifier resolver                                                      *)
(***************************************************************************)
DEFAULT_EXTENSIONS == <<".ts", ".tsx", ".js", ".jsx", ".mjs", ".cjs", ".mts", ".cts">>

\* the value null of `string | null`
Null == <<>>

\* options without path aliases and base URL
NoOptions ==
  [hasPathAliases |-> FALSE, pathAliases |-> <<>>, hasBaseUrl |-> FALSE, baseUrl |-> <<>>,
   ignorePatterns |-> <<>>, hasConcurrency |-> FALSE, concurrency |-> 0]

\* fs.stat(filePath) succeeds and isFile()
fileExists(disk, filePath) == filePath \in disk

\* the first element of candidates that exists, or null
RECURSIVE FirstExisting(_, _, _)
FirstExisting(disk, candidates, i) ==
  IF i > Len(candidates) THEN Null
  ELSE IF fileExists(disk, candidates[i]) THEN candidates[i]
  ELSE FirstExisting(disk, candidates, i + 1)

\* mutant of tryResolve: the index files are tried before the extensions
tryResolveIndexFirst(disk, targetPath, extensions) ==
  LET withExt == [i \in DOMAIN extensions |-> targetPath \o <<extensions[i]>>]
      indexPath == [i \in DOMAIN extensions |->
                      pathJoin(targetPath, <<"index", extensions[i]>>)]
      remap == IF EndsWith(targetPath, <<".js">>)
               THEN <<DropLast(targetPath, 1) \o <<".ts">>,
                      DropLast(targetPath, 1) \o <<".tsx">>>>
               ELSE <<>>
  IN  FirstExisting(disk, <<targetPath>> \o indexPath \o withExt \o remap, 1)

tryResolve(disk, targetPath, extensions) ==
  LET withExt == [i \in DOMAIN extensions |-> targetPath \o <<extensions[i]>>]
      indexPath == [i \in DOMAIN extensions |->
                      pathJoin(targetPath, <<"index", extensions[i]>>)]
      remap == IF EndsWith(targetPath, <<".js">>)
               THEN <<DropLast(targetPath, 1) \o <<".ts">>,
                      DropLast(targetPath, 1) \o <<".tsx">>>>
               ELSE <<>>
  IN  FirstExisting(disk, <<targetPath>> \o withExt \o indexPath \o remap, 1)

isExternalImport(importSource) ==
  IF StartsWithDot(importSource) THEN FALSE
  ELSE IF isAbsolute(importSource) THEN FALSE
  ELSE IF StartsWithAt(importSource) THEN Len(Split(importSource)) >= 2
  ELSE ~IncludesSlash(importSource) \/ ~StartsWith(importSource, <<"/">>)

\* the result of the first alias entry, from the i-th on, that returns
RECURSIVE resolvePathAliasFrom(_, _, _, _)
resolvePathAliasFrom(importSource, aliases, baseUrl, i) ==
  IF i > Len(aliases) THEN Null
  ELSE
    LET pattern == aliases[i].pattern
        replacements == aliases[i].replacements
    IN  IF EndsWith(pattern, <<"/", "*">>)
        THEN
          LET prefix == DropLast(pattern, 2)
          IN  IF StartsWith(importSource, prefix \o <<"/">>) /\ Len(replacements) > 0
              THEN LET rest == SliceFrom(importSource, Len(prefix) + 1)
                       replacement == replacements[1]
                       replacementBase == IF EndsWith(replacement, <<"/", "*">>)
                                          THEN DropLast(replacement, 2)
                                          ELSE replacement
                   IN  pathResolve(pathResolve(baseUrl, replacementBase), rest)
              ELSE resolvePathAliasFrom(importSource, aliases, baseUrl, i + 1)
        ELSE IF (importSource = pattern \/ StartsWith(importSource, pattern \o <<"/">>))
                /\ Len(replacements) > 0
        THEN LET rest == SliceFrom(importSource, Len(pattern))
             IN  pathResolve(baseUrl, replacements[1] \o rest)
        ELSE resolvePathAliasFrom(importSource, aliases, baseUrl, i + 1)

resolvePathAlias(importSource, aliases, baseUrl) ==
  resolvePathAliasFrom(importSource, aliases, baseUrl, 1)

\* the steps of resolveImport after the external filter
resolveInternal(disk, fromFile, importSource, rootDir, extensions, opts) ==
  LET aliasResolved == IF opts.hasPathAliases
                       THEN resolvePathAlias(importSource, opts.pathAliases,
                                             IF opts.hasBaseUrl THEN opts.baseUrl ELSE rootDir)
                       ELSE Null
      viaAlias == IF aliasResolved # Null
                  THEN tryResolve(disk, aliasResolved, extensions)
                  ELSE Null
      viaBaseUrl == IF opts.hasBaseUrl
                    THEN tryResolve(disk, pathResolve(opts.baseUrl, importSource), extensions)
                    ELSE Null
  IN  IF viaAlias # Null THEN viaAlias
      ELSE IF StartsWithDot(importSource)
      THEN tryResolve(disk, pathResolve(pathDirname(fromFile), importSource), extensions)
      ELSE IF viaBaseUrl # Null THEN viaBaseUrl
      ELSE tryResolve(disk, pathResolve(rootDir, importSource), extensions)

resolveImport(disk, fromFile, importSource, rootDir, extensions, opts) ==
  IF isExternalImport(importSource) THEN Null
  ELSE resolveInternal(disk, fromFile, importSource, rootDir, extensions, opts)

(***************************************************************************)
(* Suggestion generator.  A suggestion is [type, hasTargetEdge, targetEdge]*)
(* (the description text is left out); paths are token sequences.          *)
(***************************************************************************)
NoEdge == [from |-> <<>>, to |-> <<>>]

getEdgesFromCycle(cycle) ==
  [i \in 1..(Len(cycle.chain) - 1) |-> [from |-> cycle.chain[i], to |-> cycle.chain[i + 1]]]

\* edge.to.includes('types') || includes('.d.ts') || includes('interfaces')
\* || includes('models'), on the tokens of the path
likelyTypeImport(to) ==
  \E i \in DOMAIN to : to[i] \in {"types", ".d.ts", "interfaces", "models"}

analyzeEdge(edge, g) ==
  [edge |-> edge,
   strength |-> IF Len(getDependencies(g, edge.from)) > 0 THEN 1 ELSE 0,
   likelyTypeImport |-> likelyTypeImport(edge.to)]

\* mutant of the comparator: only the strength is compared
compareAnalysesStrengthOnly(a, b) == a.strength - b.strength

\* the comparator of findWeakestLink: negative when a sorts before b
compareAnalyses(a, b) ==
  IF a.likelyTypeImport /\ ~b.likelyTypeImport THEN -1
  ELSE IF ~a.likelyTypeImport /\ b.likelyTypeImport THEN 1
  ELSE a.strength - b.strength

\* sorted[0] of a stable sort: the first element that no other precedes
findWeakestLink(analyses) ==
  IF Len(analyses) = 0 THEN [found |-> FALSE, edge |-> NoEdge]
  ELSE IF Len(analyses) = 1 THEN [found |-> TRUE, edge |-> analyses[1].edge]
  ELSE
    LET first == CHOOSE i \in DOMAIN analyses :
                   /\ \A j \in DOMAIN analyses : compareAnalyses(analyses[j], analyses[i]) >= 0
                   /\ \A j \in 1..(i - 1) : compareAnalyses(analyses[i], analyses[j]) < 0
    IN  [found |-> TRUE, edge |-> analyses[first].edge]

Suggestion(type, hasTargetEdge, targetEdge) ==
  [type |-> type, hasTargetEdge |-> hasTargetEdge, targetEdge |-> targetEdge]

\* mutant of generateCycleSuggestions: nothing is added for long cycles
generateCycleSuggestionsNoLong(cycle, g) ==
  LET chainWithoutLoop == DropLast(cycle.chain, 1)
      edges == getEdgesFromCycle(cycle)
      edgeAnalyses == [i \in DOMAIN edges |-> analyzeEdge(edges[i], g)]
      weakestLink == findWeakestLink(edgeAnalyses)
      byShape ==
        IF cycle.length = 2
        THEN <<Suggestion("extract-interface", weakestLink.found, weakestLink.edge),
               Suggestion("merge-files", FALSE, NoEdge)>>
        ELSE (IF weakestLink.found
              THEN <<Suggestion("extract-interface", TRUE, weakestLink.edge)>>
              ELSE <<>>)
             \o <<Suggestion("dependency-injection", weakestLink.found, weakestLink.edge)>>
      lazy == <<Suggestion("lazy-import", weakestLink.found, weakestLink.edge)>>
  IN  IF cycle.length = 1
      THEN <<Suggestion("reorder-imports", TRUE,
                        [from |-> chainWithoutLoop[1], to |-> chainWithoutLoop[1]])>>
      ELSE byShape \o lazy

generateCycleSuggestions(cycle, g) ==
  LET chainWithoutLoop == DropLast(cycle.chain, 1)
      edges == getEdgesFromCycle(cycle)
      edgeAnalyses == [i \in DOMAIN edges |-> analyzeEdge(edges[i], g)]
      weakestLink == findWeakestLink(edgeAnalyses)
      byShape ==
        IF cycle.length = 2
        THEN <<Suggestion("extract-interface", weakestLink.found, weakestLink.edge),
               Suggestion("merge-files", FALSE, NoEdge)>>
        ELSE (IF weakestLink.found
              THEN <<Suggestion("extract-interface", TRUE, weakestLink.edge)>>
              ELSE <<>>)
             \o <<Suggestion("dependency-injection", weakestLink.found, weakestLink.edge)>>
      lazy == <<Suggestion("lazy-import", weakestLink.found, weakestLink.edge)>>
      long == IF cycle.length >= 4
              THEN <<Suggestion("reorder-imports", FALSE, NoEdge)>>
              ELSE <<>>
  IN  IF cycle.length = 1
      THEN <<Suggestion("reorder-imports", TRUE,
                        [from |-> chainWithoutLoop[1], to |-> chainWithoutLoop[1]])>>
      ELSE byShape \o lazy \o long

addSuggestionsToAllCycles(cycleList, g) ==
  [i \in DOMAIN cycleList |->
     [chain |-> cycleList[i].chain, length |-> cycleList[i].length,
      suggestions |-> generateCycleSuggestions(cycleList[i], g)]]

(***************************************************************************)
(* Extractor and cache.  A file's content is the sequence of its           *)
(* statements [kind, source]; the extractor keeps the module references.   *)
(***************************************************************************)
extensionToLanguage ==
  [e \in {".ts", ".tsx", ".js", ".jsx", ".mjs", ".cjs", ".mts", ".cts"} |->
     CASE e \in {".ts", ".mts", ".cts"} -> "typescript"
       [] e = ".tsx" -> "tsx"
       [] e = ".jsx" -> "jsx"
       [] OTHER -> "javascript"]

\* the language of the file's extension, or "null"
getLanguageForFile(filePath) ==
  LET ext == pathExtname(filePath)
  IN  IF ext # <<>> /\ ext[1] \in DOMAIN extensionToLanguage
      THEN extensionToLanguage[ext[1]]
      ELSE "null"

isSupportedFile(filePath) == getLanguageForFile(filePath) # "null"

\* extractImportsFromTree: one ImportInfo per import, require and re-export
\* statement, in source order
parseSource(content, language) ==
  LET refs == SelectSeq(content, LAMBDA st : st.kind \in {"import", "require", "export-from"})
  IN  [i \in DOMAIN refs |->
         [source |-> refs[i].source,
          type |-> IF refs[i].kind = "require" THEN "cjs" ELSE "esm"]]

\* ParseCache.getHash: the digest identifies the content
getHash(content) == [md5 |-> content]

\* mutant of ParseCache.get: an entry is valid whatever its hash
cacheGetIgnoringHash(c, filePath, contentHash) ==
  IF filePath \in DOMAIN c
  THEN [hit |-> TRUE, imports |-> c[filePath].imports]
  ELSE [hit |-> FALSE, imports |-> <<>>]

\* ParseCache.get: the entry's imports when the hash matches, else a miss
cacheGet(c, filePath, contentHash) ==
  IF filePath \in DOMAIN c /\ c[filePath].hash = contentHash
  THEN [hit |-> TRUE, imports |-> c[filePath].imports]
  ELSE [hit |-> FALSE, imports |-> <<>>]

\* mutant of ParseCache.set: an existing entry is kept
cacheSetIfAbsent(c, filePath, contentHash, imports) ==
  IF filePath \in DOMAIN c THEN c
  ELSE MapSet(c, filePath, [hash |-> contentHash, imports |-> imports])

cacheSet(c, filePath, contentHash, imports) ==
  MapSet(c, filePath, [hash |-> contentHash, imports |-> imports])

\* ParseCache.has
cacheHas(c, filePath) == filePath \in DOMAIN c

\* ParseCache.delete
cacheDelete(c, filePath) == [x \in DOMAIN c \ {filePath} |-> c[x]]

\* ParseCache.clear, on the entries
cacheClear(c) == EmptyMap

\* ParseCache.size
cacheSize(c) == Cardinality(DOMAIN c)

\* the counters of a new or cleared ParseCache
NoLookups == [hits |-> 0, misses |-> 0]

\* this.hits++ or this.misses++ in ParseCache.get
countLookup(stats, hit) ==
  IF hit THEN [stats EXCEPT !.hits = @ + 1] ELSE [stats EXCEPT !.misses = @ + 1]

\* error values of a task result: null, or the message of the thrown Error
NoError == "null"

ReadErrorMessage == "EACCES: permission denied, open"

ParseErrorMessage == "Invalid argument"

\* if (result.error)
Truthy(message) == message # NoError /\ message # ""

\* parseFileWithCache inside the try/catch of the batch task: the task's
\* result and the cache after it.  fault is what the environment does to the
\* file: "read" rejects fs.readFile, "parse" makes the parser throw.
runTask(filePath, content, fault, c, enableCache) ==
  IF fault = "read"
  THEN [result |-> [file |-> filePath, imports |-> <<>>, error |-> ReadErrorMessage],
        cache |-> c]
  ELSE
    LET hash == getHash(content)
        cached == cacheGet(c, filePath, hash)
        language == getLanguageForFile(filePath)
    IN  IF enableCache /\ cached.hit
        THEN [result |-> [file |-> filePath, imports |-> cached.imports, error |-> NoError],
              cache |-> c]
        ELSE IF language = "null"
        THEN [result |-> [file |-> filePath, imports |-> <<>>,
                          error |-> "Unsupported file type"],
              cache |-> c]
        ELSE IF fault = "parse"
        THEN [result |-> [file |-> filePath, imports |-> <<>>, error |-> ParseErrorMessage],
              cache |-> c]
        ELSE
          LET imports == parseSource(content, language)
          IN  [result |-> [file |-> filePath, imports |-> imports, error |-> NoError],
               cache |-> IF enableCache THEN cacheSet(c, filePath, hash, imports) ELSE c]

\* the counters of the cache after the task of runTask: one lookup when the
\* read succeeded and the cache is enabled
statsAfterTask(stats, filePath, content, fault, c, enableCache) ==
  IF fault = "read" \/ ~enableCache THEN stats
  ELSE countLookup(stats, cacheGet(c, filePath, getHash(content)).hit)

(***************************************************************************)
(* Specification of the graph: any sequence of mutations                   *)
(***************************************************************************)
\* no query was made
QueryIdle == query = <<>>

\* no parseFile call was made
ParserIdle ==
  /\ parserLanguage = "null"
  /\ calls = <<>>

EmptyHeap == [objects |-> <<>>, arrays |-> <<>>]

\* a new graph g, not yet serialized
HeapIdle ==
  /\ heap = EmptyHeap
  /\ original = <<>>
  /\ snapshot = <<>>
  /\ restored = <<>>
  /\ expected = [original |-> NewGraph(""), snapshot |-> NewGraph(""),
                 restored |-> NewGraph("")]

ModuleIdle == QueryIdle /\ ParserIdle /\ HeapIdle

\* the analyzer's variables in the specifications that do not use them
RunIdle ==
  /\ pending = {}
  /\ files = <<>>
  /\ batchStart = 0
  /\ inflight = {}
  /\ started = <<>>
  /\ batchResults = EmptyMap
  /\ errors = <<>>
  /\ cache = EmptyMap
  /\ cacheStats = NoLookups
  /\ written = EmptyMap
  /\ progress = <<>>
  /\ result = [status |-> "pending"]

AnalyzerIdle ==
  /\ fs = {}
  /\ dirs = {}
  /\ contents = EmptyMap
  /\ faults = EmptyMap
  /\ options = NoOptions
  /\ resolved = <<>>
  /\ ModuleIdle
  /\ RunIdle

GraphInit ==
  /\ graph = NewGraph("")
  /\ cycles = <<>>
  /\ phase = "mutating"
  /\ AnalyzerIdle

AddNode(p) ==
  /\ graph' = addNode(graph, p)
  /\ UNCHANGED <<cycles, phase, analyzerVars, moduleVars>>

AddEdge(from, to) ==
  /\ edgeCount(graph) < MaxEdges
  /\ graph' = addEdge(graph, from, to)
  /\ UNCHANGED <<cycles, phase, analyzerVars, moduleVars>>

RemoveNode(p) ==
  /\ graph' = removeNode(graph, p)
  /\ UNCHANGED <<cycles, phase, analyzerVars, moduleVars>>

RemoveEdge(from, to) ==
  /\ graph' = removeEdge(graph, from, to)
  /\ UNCHANGED <<cycles, phase, analyzerVars, moduleVars>>

Clear ==
  /\ graph' = clear(graph)
  /\ UNCHANGED <<cycles, phase, analyzerVars, moduleVars>>

GraphNext ==
  \/ \E p \in Paths : AddNode(p)
  \/ \E from \in Paths, to \in Paths : AddEdge(from, to)
  \/ \E p \in Paths : RemoveNode(p)
  \/ \E from \in Paths, to \in Paths : RemoveEdge(from, to)
  \/ Clear

SpecGraph == GraphInit /\ [][GraphNext]_vars

(***************************************************************************)
(* Cycle engine: Tarjan's strongly connected components                    *)
(***************************************************************************)
TarjanInit ==
  [index |-> 0, stack |-> <<>>, onStack |-> {}, indices |-> EmptyMap,
   lowlinks |-> EmptyMap, sccs |-> <<>>]

\* mutant of PopScc: only the top of the stack is popped
PopSccOnlyTop(v, state, scc) ==
  LET w == state.stack[Len(state.stack)]
  IN  [state EXCEPT !.stack = SubSeq(@, 1, Len(@) - 1),
                    !.onStack = @ \ {w},
                    !.sccs = Append(@, Append(scc, w))]

\* the do-while loop that pops the stack down to and including v
RECURSIVE PopScc(_, _, _)
PopScc(v, state, scc) ==
  LET w == state.stack[Len(state.stack)]
      state1 == [state EXCEPT !.stack = SubSeq(@, 1, Len(@) - 1),
                              !.onStack = @ \ {w}]
      scc1 == Append(scc, w)
  IN  IF w # v
      THEN PopScc(v, state1, scc1)
      ELSE [state1 EXCEPT !.sccs = Append(@, scc1)]

RECURSIVE strongConnect(_, _, _)
RECURSIVE strongConnectLoop(_, _, _, _, _)
\* the loop over the successors of v, from the i-th on
strongConnectLoop(v, deps, i, g, state) ==
  IF i > Len(deps) THEN state
  ELSE
    LET w == deps[i]
        state1 ==
          IF w \notin DOMAIN state.indices
          THEN LET r == strongConnect(w, g, state)
               IN  [r EXCEPT !.lowlinks[v] = Min(r.lowlinks[v], r.lowlinks[w])]
          ELSE IF w \in state.onStack
          THEN [state EXCEPT !.lowlinks[v] = Min(@, state.indices[w])]
          ELSE state
    IN  strongConnectLoop(v, deps, i + 1, g, state1)

strongConnect(v, g, state) ==
  LET state1 == [state EXCEPT !.indices = MapSet(@, v, state.index),
                              !.lowlinks = MapSet(@, v, state.index),
                              !.index = @ + 1,
                              !.stack = Append(@, v),
                              !.onStack = @ \cup {v}]
      state2 == strongConnectLoop(v, getDependencies(g, v), 1, g, state1)
  IN  IF state2.lowlinks[v] = state2.indices[v]
      THEN PopScc(v, state2, <<>>)
      ELSE state2

RECURSIVE TarjanLoop(_, _, _, _)
TarjanLoop(nodes, i, g, state) ==
  IF i > Len(nodes) THEN state
  ELSE TarjanLoop(nodes, i + 1, g,
                  IF nodes[i] \notin DOMAIN state.indices
                  THEN strongConnect(nodes[i], g, state)
                  ELSE state)

findStronglyConnectedComponents(g) == TarjanLoop(getNodes(g), 1, g, TarjanInit).sccs

(***************************************************************************)
(* Cycle engine: one cyclic path per SCC, and the self-loops               *)
(***************************************************************************)
RECURSIVE dfs(_, _, _, _, _)
RECURSIVE dfsLoop(_, _, _, _, _, _)
\* ds = [path, visited, found]: the closure variables of dfs and its result
dfsLoop(deps, i, start, sccSet, g, ds) ==
  IF i > Len(deps) THEN [ds EXCEPT !.found = FALSE]
  ELSE LET r == dfs(deps[i], start, sccSet, g, ds)
       IN  IF r.found THEN r ELSE dfsLoop(deps, i + 1, start, sccSet, g, r)

dfs(current, start, sccSet, g, ds) ==
  IF Len(ds.path) > 0 /\ current = start
  THEN [ds EXCEPT !.path = Append(@, current), !.found = TRUE]
  ELSE IF current \in ds.visited
  THEN [ds EXCEPT !.found = FALSE]
  ELSE
    LET ds1 == [path |-> Append(ds.path, current),
                visited |-> ds.visited \cup {current},
                found |-> FALSE]
        deps == SelectSeq(getDependencies(g, current), LAMBDA d : d \in sccSet)
        r == dfsLoop(deps, 1, start, sccSet, g, ds1)
    IN  IF r.found THEN r
        ELSE [path |-> SubSeq(r.path, 1, Len(r.path) - 1),
              visited |-> r.visited \ {current},
              found |-> FALSE]

\* mutant of reconstructCyclePath: the fallback is always taken
reconstructCyclePathFallback(scc, g) ==
  IF Len(scc) = 0 THEN <<>>
  ELSE IF Len(scc) = 1 THEN <<scc[1], scc[1]>>
  ELSE Append(scc, scc[1])

reconstructCyclePath(scc, g) ==
  IF Len(scc) = 0 THEN <<>>
  ELSE IF Len(scc) = 1 THEN <<scc[1], scc[1]>>
  ELSE
    LET start == scc[1]
        r == dfs(start, start, Range(scc), g,
                 [path |-> <<>>, visited |-> {}, found |-> FALSE])
    IN  IF Len(r.path) <= 1 \/ r.path[Len(r.path)] # start
        THEN Append(scc, scc[1])
        ELSE r.path

\* the self-loop scan over getNodes()
selfLoopsOf(g) ==
  LET looping == SelectSeq(getNodes(g), LAMBDA n : Includes(getDependencies(g, n), n))
  IN  [i \in DOMAIN looping |-> [chain |-> <<looping[i], looping[i]>>, length |-> 1]]

\* mutant of findCycles: the self-loop scan is left out
findCyclesNoSelfLoops(g) ==
  LET sccs == findStronglyConnectedComponents(g)
      cyclicSccs == SelectSeq(sccs, LAMBDA scc : Len(scc) > 1)
  IN  [i \in DOMAIN cyclicSccs |->
         [chain |-> reconstructCyclePath(cyclicSccs[i], g),
          length |-> Len(cyclicSccs[i])]]

\* mutant of findCycles: single-node components are not filtered out
findCyclesAllSccs(g) ==
  LET sccs == findStronglyConnectedComponents(g)
      cyclicSccs == SelectSeq(sccs, LAMBDA scc : Len(scc) > 0)
      sccCycles == [i \in DOMAIN cyclicSccs |->
                      [chain |-> reconstructCyclePath(cyclicSccs[i], g),
                       length |-> Len(cyclicSccs[i])]]
  IN  selfLoopsOf(g) \o sccCycles

findCycles(g) ==
  LET sccs == findStronglyConnectedComponents(g)
      cyclicSccs == SelectSeq(sccs, LAMBDA scc : Len(scc) > 1)
      sccCycles == [i \in DOMAIN cyclicSccs |->
                      [chain |-> reconstructCyclePath(cyclicSccs[i], g),
                       length |-> Len(cyclicSccs[i])]]
  IN  selfLoopsOf(g) \o sccCycles

\* findCyclesInvolvingFile: the cycles whose chain.slice(0, -1) includes the file
findCyclesInvolvingFile(g, filePath) ==
  SelectSeq(findCycles(g), LAMBDA cycle : Includes(DropLast(cycle.chain, 1), filePath))

(***************************************************************************)
(* Cycle engine: findAllSimpleCycles.  cs = [cycles, blocked, blockedMap,  *)
(* stack, found] holds the closure variables of circuit and unblock and    *)
(* the value circuit returned; a Set is the sequence of its elements in    *)
(* insertion order.                                                        *)
(***************************************************************************)
DEFAULT_MAX_CYCLES == 1000

\* Set.add
SetAdd(list, x) == IF Includes(list, x) THEN list ELSE Append(list, x)

RECURSIVE unblock(_, _)
RECURSIVE unblockLoop(_, _, _)
\* for (const blocker of blockers)
unblockLoop(blockers, i, cs) ==
  IF i > Len(blockers) THEN cs
  ELSE unblockLoop(blockers, i + 1,
                   IF blockers[i] \in cs.blocked THEN unblock(blockers[i], cs) ELSE cs)

unblock(node, cs) ==
  LET cs1 == [cs EXCEPT !.blocked = @ \ {node}]
  IN  IF node \in DOMAIN cs1.blockedMap
      THEN LET cs2 == unblockLoop(cs1.blockedMap[node], 1, cs1)
           IN  [cs2 EXCEPT !.blockedMap[node] = <<>>]
      ELSE cs1

\* the else branch of circuit: node is recorded as a blocker of each neighbor
RECURSIVE addBlockers(_, _, _, _)
addBlockers(deps, i, node, blockedMap) ==
  IF i > Len(deps) THEN blockedMap
  ELSE addBlockers(deps, i + 1, node,
                   MapSet(blockedMap, deps[i],
                          SetAdd(IF deps[i] \in DOMAIN blockedMap
                                 THEN blockedMap[deps[i]] ELSE <<>>, node)))

RECURSIVE circuit(_, _, _, _, _)
RECURSIVE circuitLoop(_, _, _, _, _, _, _, _)
\* the loop of circuit over the neighbors of node, from the i-th on, and the
\* statements after it
circuitLoop(deps, i, node, startNode, g, maxCycles, cs, foundCycle) ==
  IF i > Len(deps)
  THEN LET cs1 == IF foundCycle
                  THEN unblock(node, cs)
                  ELSE [cs EXCEPT !.blockedMap = addBlockers(deps, 1, node, @)]
       IN  [cs1 EXCEPT !.stack = SubSeq(@, 1, Len(@) - 1), !.found = foundCycle]
  ELSE IF Len(cs.cycles) >= maxCycles
  THEN [cs EXCEPT !.stack = SubSeq(@, 1, Len(@) - 1), !.found = TRUE]
  ELSE IF deps[i] = startNode
  THEN circuitLoop(deps, i + 1, node, startNode, g, maxCycles,
                   [cs EXCEPT !.cycles = Append(@, Append(cs.stack, startNode))], TRUE)
  ELSE IF deps[i] \notin cs.blocked
  THEN LET r == circuit(deps[i], startNode, g, maxCycles, cs)
       IN  circuitLoop(deps, i + 1, node, startNode, g, maxCycles, r,
                       foundCycle \/ r.found)
  ELSE circuitLoop(deps, i + 1, node, startNode, g, maxCycles, cs, foundCycle)

circuit(node, startNode, g, maxCycles, cs) ==
  circuitLoop(getDependencies(g, node), 1, node, startNode, g, maxCycles,
              [cs EXCEPT !.stack = Append(@, node), !.blocked = @ \cup {node}],
              FALSE)

\* for (const startNode of nodes): the list of cycles found so far is
\* carried through, the other closure variables are new for each start node
RECURSIVE startNodeLoop(_, _, _, _, _)
startNodeLoop(nodes, i, g, maxCycles, found) ==
  IF i > Len(nodes) \/ Len(found) >= maxCycles THEN found
  ELSE startNodeLoop(nodes, i + 1, g, maxCycles,
                     circuit(nodes[i], nodes[i], g, maxCycles,
                             [cycles |-> found, blocked |-> {}, blockedMap |-> EmptyMap,
                              stack |-> <<>>, found |-> FALSE]).cycles)

\* the order of the operator < on the node names
NameOrder == <<"a", "b", "c", "d">>

NameRank(name) == CHOOSE k \in DOMAIN NameOrder : NameOrder[k] = name

\* nodes[i] < nodes[j] on strings
StringLess(x, y) == NameRank(x) < NameRank(y)

\* the loop that finds the index of the smallest element
RECURSIVE minIdxLoop(_, _, _)
minIdxLoop(nodes, i, minIdx) ==
  IF i > Len(nodes) THEN minIdx
  ELSE minIdxLoop(nodes, i + 1, IF StringLess(nodes[i], nodes[minIdx]) THEN i ELSE minIdx)

normalizeCycle(cycle) ==
  IF Len(cycle) <= 1 THEN cycle
  ELSE LET nodes == IF cycle[Len(cycle)] = cycle[1] THEN DropLast(cycle, 1) ELSE cycle
       IN  IF Len(nodes) = 0 THEN cycle
           ELSE LET minIdx == minIdxLoop(nodes, 2, 1)
                    rotated == SubSeq(nodes, minIdx, Len(nodes)) \o SubSeq(nodes, 1, minIdx - 1)
                IN  Append(rotated, rotated[1])

\* the loop of deduplicateCycles; the key of a cycle is its normalized form
\* (join('->') is one-to-one on node names without "->")
RECURSIVE deduplicateLoop(_, _, _, _)
deduplicateLoop(found, i, seen, unique) ==
  IF i > Len(found) THEN unique
  ELSE LET key == normalizeCycle(found[i])
       IN  IF key \in seen
           THEN deduplicateLoop(found, i + 1, seen, unique)
           ELSE deduplicateLoop(found, i + 1, seen \cup {key}, Append(unique, found[i]))

\* mutant of deduplicateCycles: every cycle found is kept
deduplicateCyclesKeepAll(found) == found

deduplicateCycles(found) == deduplicateLoop(found, 1, {}, <<>>)

findAllSimpleCycles(g, maxCycles) ==
  LET uniqueCycles == deduplicateCycles(startNodeLoop(getNodes(g), 1, g, maxCycles, <<>>))
  IN  [i \in DOMAIN uniqueCycles |->
         [chain |-> uniqueCycles[i], length |-> Len(uniqueCycles[i]) - 1]]

(***************************************************************************)
(* Specification of the cycle engine: a graph is built by addEdge calls in *)
(* any order (addEdge adds the nodes), then findCycles runs on it          *)
(***************************************************************************)
CyclesInit ==
  /\ graph = NewGraph("")
  /\ cycles = <<>>
  /\ phase = "building"
  /\ AnalyzerIdle

BuildEdge(from, to) ==
  /\ phase = "building"
  /\ edgeCount(graph) < MaxCycleEdges
  /\ graph' = addEdge(graph, from, to)
  /\ UNCHANGED <<cycles, phase, analyzerVars, moduleVars>>

FindCycles ==
  /\ phase = "building"
  /\ cycles' = findCycles(graph)
  /\ phase' = "found"
  /\ UNCHANGED <<graph, analyzerVars, moduleVars>>

CyclesNext ==
  \/ \E from \in CyclePaths, to \in CyclePaths : BuildEdge(from, to)
  \/ FindCycles

SpecCycles == CyclesInit /\ [][CyclesNext]_vars

(***************************************************************************)
(* Specification of the queries: a graph is built by addNode and addEdge   *)
(* calls in any order, then one query is made on it                        *)
(***************************************************************************)
\* number of edges a graph of the query specification may hold
MaxQueryEdges == 4

\* the largest maxCycles argument given besides the default
MaxCyclesArg == 3

\* file paths used by the query specification
QueryPaths == {"a", "b", "c"}

QueriesInit ==
  /\ graph = NewGraph("")
  /\ cycles = <<>>
  /\ phase = "building"
  /\ AnalyzerIdle

QueryAddNode(p) ==
  /\ phase = "building"
  /\ graph' = addNode(graph, p)
  /\ UNCHANGED <<cycles, phase, analyzerVars, moduleVars>>

QueryAddEdge(from, to) ==
  /\ phase = "building"
  /\ edgeCount(graph) < MaxQueryEdges
  /\ graph' = addEdge(graph, from, to)
  /\ UNCHANGED <<cycles, phase, analyzerVars, moduleVars>>

\* the call op(graph, arg) returns answer
Answer(op, arg, answer) ==
  /\ phase = "building"
  /\ query' = [op |-> op, arg |-> arg, answer |-> answer]
  /\ phase' = "queried"
  /\ UNCHANGED <<graph, cycles, analyzerVars, parserVars, heapVars>>

FindStronglyConnectedComponents ==
  Answer("findStronglyConnectedComponents", <<>>, findStronglyConnectedComponents(graph))

FindCyclesInvolvingFile(filePath) ==
  Answer("findCyclesInvolvingFile", filePath, findCyclesInvolvingFile(graph, filePath))

FindAllSimpleCycles(maxCycles) ==
  Answer("findAllSimpleCycles", maxCycles, findAllSimpleCycles(graph, maxCycles))

GetTransitiveDependencies(filePath) ==
  Answer("getTransitiveDependencies", filePath, getTransitiveDependencies(graph, filePath))

GetTransitiveDependents(filePath) ==
  Answer("getTransitiveDependents", filePath, getTransitiveDependents(graph, filePath))

QueriesNext ==
  \/ \E p \in QueryPaths : QueryAddNode(p)
  \/ \E from \in QueryPaths, to \in QueryPaths : QueryAddEdge(from, to)
  \/ FindStronglyConnectedComponents
  \/ \E filePath \in QueryPaths : FindCyclesInvolvingFile(filePath)
  \/ \E maxCycles \in (0..MaxCyclesArg) \cup {DEFAULT_MAX_CYCLES} : FindAllSimpleCycles(maxCycles)
  \/ \E filePath \in QueryPaths : GetTransitiveDependencies(filePath)
  \/ \E filePath \in QueryPaths : GetTransitiveDependents(filePath)

SpecQueries == QueriesInit /\ [][QueriesNext]_vars

(***************************************************************************)
(* C1: bidirectional consistency                                           *)
(***************************************************************************)
NodeSet(g) == Range(getNodes(g))

\* C1: for all nodes u, v of the graph, v is in u's dependencies iff u is in
\* v's dependents, and every path in an adjacency list is a node of the graph.
C1_BidirectionalConsistency ==
  /\ \A u \in NodeSet(graph), v \in NodeSet(graph) :
       Includes(getDependencies(graph, u), v) <=> Includes(getDependents(graph, v), u)
  /\ \A u \in NodeSet(graph) :
       /\ Range(getDependencies(graph, u)) \subseteq NodeSet(graph)
       /\ Range(getDependents(graph, u)) \subseteq NodeSet(graph)

\* a node with a self-loop and another edge survived the removal of a third
\* node it was connected to
C1_Witness ==
  /\ Len(graph.nodes) = 2
  /\ hasEdge(graph, "a", "a")
  /\ hasEdge(graph, "a", "b")
  /\ hasEdge(graph, "b", "a")
  /\ ~hasNode(graph, "c")
  /\ getDependents(graph, "a") = <<"b", "a">>

(***************************************************************************)
(* Specification of the resolver: a file tree, an options value, and       *)
(* resolveImport calls on it                                               *)
(***************************************************************************)
\* the analyzed root directory /r
Root == <<"/", "r">>

FileA == Root \o <<"/", "a", ".ts">>
FileB == Root \o <<"/", "b", ".ts">>
FileC == Root \o <<"/", "src", "/", "c", ".ts">>
FileCx == Root \o <<"/", "src", "/", "c", ".tsx">>
FileIndex == Root \o <<"/", "src", "/", "index", ".ts">>
FileM == Root \o <<"/", "node_modules", "/", "m", ".ts">>
FileJson == Root \o <<"/", "d", ".json">>
FileSrcTs == Root \o <<"/", "src", ".ts">>
FileLibC == Root \o <<"/", "lib", "/", "c", ".ts">>

\* the files a tree of the resolver specification may contain
ResolveCandidates == {FileB, FileC, FileCx, FileIndex, FileM, FileJson, FileSrcTs}

\* the trees of the resolver specification: any of the candidates, or
\* lib/c.ts beside any of the src/c files
ResolveTrees ==
  (SUBSET ResolveCandidates) \cup {S \cup {FileLibC} : S \in SUBSET {FileC, FileCx}}

\* paths = { "@/*": ["src/*"] } with baseUrl = root
AliasOptions ==
  [hasPathAliases |-> TRUE,
   pathAliases |-> <<[pattern |-> <<"@", "/", "*">>,
                      replacements |-> << <<"src", "/", "*">> >>]>>,
   hasBaseUrl |-> TRUE, baseUrl |-> Root,
   ignorePatterns |-> <<>>, hasConcurrency |-> FALSE, concurrency |-> 0]

\* paths = { "/app/*": ["lib/*", "src/*"] } with baseUrl = root
MultiAliasOptions ==
  [hasPathAliases |-> TRUE,
   pathAliases |-> <<[pattern |-> <<"/", "app", "/", "*">>,
                      replacements |-> << <<"lib", "/", "*">>, <<"src", "/", "*">> >>]>>,
   hasBaseUrl |-> TRUE, baseUrl |-> Root,
   ignorePatterns |-> <<>>, hasConcurrency |-> FALSE, concurrency |-> 0]

BaseUrlOptions ==
  [hasPathAliases |-> FALSE, pathAliases |-> <<>>, hasBaseUrl |-> TRUE, baseUrl |-> Root,
   ignorePatterns |-> <<>>, hasConcurrency |-> FALSE, concurrency |-> 0]

SpecAtC == <<"@", "/", "c">>
SpecDotB == <<".", "/", "b">>
SpecDotBJs == <<".", "/", "b", ".js">>
SpecDotSrc == <<".", "/", "src">>
SpecUpB == <<"..", "/", "b">>
SpecLodash == <<"lodash">>
SpecScoped == <<"@org", "/", "pkg">>
SpecSrcC == <<"src", "/", "c">>
SpecModule == <<".", "/", "node_modules", "/", "m">>
SpecJson == <<".", "/", "d", ".json">>
SpecAppC == <<"/", "app", "/", "c">>

\* the specifiers resolved in the resolver specification
ResolveSpecifiers ==
  {SpecAtC, SpecDotB, SpecDotBJs, SpecDotSrc, SpecUpB, SpecLodash, SpecScoped,
   SpecSrcC, SpecModule, SpecJson, SpecAppC}

ResolveInit ==
  /\ graph = NewGraph("")
  /\ cycles = <<>>
  /\ phase = "idle"
  /\ fs \in ResolveTrees
  /\ dirs = {}
  /\ contents = EmptyMap
  /\ faults = EmptyMap
  /\ options \in {NoOptions, AliasOptions, MultiAliasOptions, BaseUrlOptions}
  /\ resolved = <<>>
  /\ ModuleIdle
  /\ RunIdle

ResolveImport(fromFile, importSource) ==
  /\ resolved' = [fromFile |-> fromFile, importSource |-> importSource,
                  result |-> resolveImport(fs, fromFile, importSource, Root,
                                           DEFAULT_EXTENSIONS, options)]
  /\ phase' = "resolved"
  /\ UNCHANGED <<graph, cycles, envVars, moduleVars, runVars, written>>

ResolveNext ==
  \E fromFile \in {FileA, FileC}, importSource \in ResolveSpecifiers :
    ResolveImport(fromFile, importSource)

SpecResolve == ResolveInit /\ [][ResolveNext]_vars

(***************************************************************************)
(* analyzeDirectory: discovery                                             *)
(***************************************************************************)
DirSrc == Root \o <<"/", "src">>
DirModules == Root \o <<"/", "node_modules">>
DirLib == Root \o <<"/", "lib">>
FileE == DirLib \o <<"/", "e", ".ts">>

DEFAULT_IGNORE_DIRS ==
  << <<"node_modules">>, <<"dist">>, <<"build">>, <<".git">>, <<"coverage">>,
     <<".next">>, <<".nuxt">> >>

DEFAULT_CONCURRENCY == 50

\* the order in which the platform lists directory entries
ReaddirOrder ==
  <<FileA, FileB, FileJson, DirLib, DirModules, DirSrc, FileE, FileC, FileCx, FileIndex,
    FileM>>

\* fs.readdir(currentPath, {withFileTypes: true}) of an existing directory:
\* the full paths of its entries
readdir(disk, folders, currentPath) ==
  SelectSeq(ReaddirOrder,
            LAMBDA e : (e \in disk \/ e \in folders) /\ pathDirname(e) = currentPath)

\* str.includes(pattern)
IncludesString(str, pattern) ==
  \E i \in 1..(Len(str) - Len(pattern) + 1) : SubSeq(str, i, i + Len(pattern) - 1) = pattern

\* the RegExp built from a pattern with "*": "*" matches any run of tokens
RECURSIVE GlobMatch(_, _)
GlobMatch(pattern, str) ==
  IF Len(pattern) = 0 THEN Len(str) = 0
  ELSE IF pattern[1] = "*"
  THEN \E k \in 0..Len(str) : GlobMatch(Tail(pattern), SliceFrom(str, k))
  ELSE Len(str) > 0 /\ pattern[1] = str[1] /\ GlobMatch(Tail(pattern), Tail(str))

shouldIgnore(filePath, patterns) ==
  \E i \in DOMAIN patterns :
    IF Includes(patterns[i], "*")
    THEN GlobMatch(patterns[i], filePath) \/ GlobMatch(patterns[i], pathBasename(filePath))
    ELSE IncludesString(filePath, patterns[i]) \/ pathBasename(filePath) = patterns[i]

\* the entries of currentPath that walkConcurrent descends into
walkDirectories(disk, folders, currentPath, ignoreDirs, ignorePatterns) ==
  SelectSeq(readdir(disk, folders, currentPath),
            LAMBDA e : /\ e \in folders
                       /\ ~Includes(ignoreDirs, pathBasename(e))
                       /\ ~shouldIgnore(e, ignorePatterns))

\* the entries of currentPath that walkConcurrent pushes to files
walkRegularFiles(disk, folders, currentPath, extensions, ignorePatterns) ==
  SelectSeq(readdir(disk, folders, currentPath),
            LAMBDA e : /\ e \notin folders
                       /\ e \in disk
                       /\ pathExtname(e) # <<>>
                       /\ Includes(extensions, pathExtname(e)[1])
                       /\ isSupportedFile(e)
                       /\ ~shouldIgnore(e, ignorePatterns))

(***************************************************************************)
(* analyzeDirectory: graph construction and result                         *)
(***************************************************************************)
concurrencyOf(opts) == IF opts.hasConcurrency THEN opts.concurrency ELSE DEFAULT_CONCURRENCY

\* for (const file of files) graph.addNode(file)
RECURSIVE addAllNodes(_, _, _)
addAllNodes(g, fileList, i) ==
  IF i > Len(fileList) THEN g
  ELSE addAllNodes(addNode(g, fileList[i]), fileList, i + 1)

\* the loop over result.imports: resolve each import, add the edge when it
\* resolves
RECURSIVE addImportEdges(_, _, _, _, _, _)
addImportEdges(g, disk, file, imports, k, opts) ==
  IF k > Len(imports) THEN g
  ELSE
    LET resolvedPath == resolveImport(disk, file, imports[k].source, Root,
                                      DEFAULT_EXTENSIONS, opts)
    IN  addImportEdges(IF resolvedPath # Null THEN addEdge(g, file, resolvedPath) ELSE g,
                       disk, file, imports, k + 1, opts)

\* mutant of processResults: the loop stops at the first result with an error
RECURSIVE processResultsStopAtError(_, _, _, _)
processResultsStopAtError(acc, disk, results, opts) ==
  IF Len(results) = 0 THEN acc
  ELSE
    LET r == results[1]
    IN  IF Truthy(r.error)
        THEN [acc EXCEPT !.errors = Append(@, [file |-> r.file, error |-> r.error])]
        ELSE processResultsStopAtError(
               [acc EXCEPT !.graph = addImportEdges(@, disk, r.file, r.imports, 1, opts)],
               disk, Tail(results), opts)

\* the loop over batchResults; acc = [graph, errors]
RECURSIVE processResults(_, _, _, _)
processResults(acc, disk, results, opts) ==
  IF Len(results) = 0 THEN acc
  ELSE
    LET r == results[1]
        errs == IF Truthy(r.error)
                THEN Append(acc.errors, [file |-> r.file, error |-> r.error])
                ELSE acc.errors
    IN  processResults([graph |-> addImportEdges(acc.graph, disk, r.file, r.imports, 1, opts),
                        errors |-> errs],
                       disk, Tail(results), opts)

\* DependencyGraph.toData
toData(g) == [nodes |-> g.nodes, cycles |-> <<>>, rootDir |-> g.rootDir]

\* the value returned by analyzeDirectory (topDependencies, topDependents and
\* duration are left out of stats)
analysisResult(g, foundCycles, errs) ==
  [status |-> "returned",
   graph |-> toData(g),
   cycles |-> foundCycles,
   stats |-> [totalFiles |-> nodeCount(g),
              totalDependencies |-> edgeCount(g),
              circularDependencies |-> Len(foundCycles)],
   errors |-> errs,
   rootDir |-> g.rootDir]

Max(a, b) == IF a > b THEN a ELSE b

\* Array.prototype.slice(start, end): a negative index counts from the end,
\* both indexes are clamped to the array
jsSlice(list, start, end) ==
  LET from == IF start < 0 THEN Max(Len(list) + start, 0) ELSE Min(start, Len(list))
      to == IF end < 0 THEN Max(Len(list) + end, 0) ELSE Min(end, Len(list))
  IN  SubSeq(list, from + 1, to)

\* mutant of the batch slice: a batch starts one file before the counter
batchOfOverlapping(fileList, i, concurrency) ==
  jsSlice(fileList, Max(i - 1, 0), Min(i + concurrency, Len(fileList)))

\* files.slice(i, Math.min(i + concurrency, files.length))
batchOf(fileList, i, concurrency) ==
  jsSlice(fileList, i, Min(i + concurrency, Len(fileList)))

(***************************************************************************)
(* Specification of analyzeDirectory: one call on a file tree.  The steps  *)
(* are the call, the completion of each directory read, the continuation   *)
(* after discovery, the completion of each parse task of the batch in      *)
(* flight, and the continuation after the batch.                           *)
(***************************************************************************)
MaxConcurrency == 2
MaxFaults == 1

\* the run is followed up to this number of progress events
MaxEvents == 6

\* the files whose content the analysis reads
SourceFiles == {FileA, FileB, FileC, FileE}

MainTree ==
  [fs |-> {FileA, FileB, FileC, FileM, FileJson}, dirs |-> {Root, DirSrc, DirModules}]

\* the root path does not exist
MissingRootTree == [fs |-> {}, dirs |-> {}]

\* the root path is a regular file
RootIsFileTree == [fs |-> {Root}, dirs |-> {}]

\* two sibling directories with one file each
SiblingTree == [fs |-> {FileC, FileE}, dirs |-> {Root, DirSrc, DirLib}]

Trees == {MainTree, SiblingTree, MissingRootTree, RootIsFileTree}

Stmt(kind, source) == [kind |-> kind, source |-> source]

ContentSameDir ==
  <<Stmt("import", SpecDotB), Stmt("other", <<>>), Stmt("require", SpecDotB)>>

ContentDown ==
  <<Stmt("import", <<".", "/", "a">>), Stmt("require", <<".", "/", "src", "/", "c">>)>>

ContentUp == <<Stmt("import", <<"..", "/", "a">>), Stmt("export-from", SpecUpB)>>

ContentOutside ==
  <<Stmt("import", SpecModule), Stmt("import", SpecLodash), Stmt("import", SpecJson),
    Stmt("import", SpecAtC)>>

\* file contents: sequences of statements
ContentMenu == {<<>>, ContentSameDir, ContentDown, ContentUp, ContentOutside}

\* the contents a file of the tree may have: the files of the root directory
\* import from their directory and below, the others from the directory above
ContentsOf(f) ==
  IF f = FileA THEN ContentMenu
  ELSE IF f = FileB THEN {<<>>, ContentSameDir, ContentDown}
  ELSE {<<>>, ContentUp}

\* what the environment does to each file: nothing, a failing read, or a
\* failing parse; at most MaxFaults files fail
FaultChoices(S) ==
  {fl \in [S -> {"none", "read", "parse"}] :
     Cardinality({f \in S : fl[f] # "none"}) <= MaxFaults}

\* ignorePatterns = ["dist", "*/b.ts"]
IgnoreOptions ==
  [NoOptions EXCEPT !.ignorePatterns = << <<"dist">>, <<"*", "/", "b", ".ts">> >>]

\* the integers given as the concurrency option; the option is not validated
ConcurrencyValues == (-1)..MaxConcurrency

AnalyzeOptions ==
  {NoOptions, AliasOptions, IgnoreOptions}
    \cup {[NoOptions EXCEPT !.hasConcurrency = TRUE, !.concurrency = c] :
            c \in ConcurrencyValues}

\* a content of file f in an earlier run, different from its content now
PriorContent(cont, f) == CHOOSE c \in ContentMenu : c # cont[f]

\* the entry that a successful parse of content c of file f left in the cache
CacheEntry(f, c) ==
  [hash |-> getHash(c), imports |-> parseSource(c, getLanguageForFile(f))]

\* globalParseCache at the call: empty, or left by an earlier run on the same
\* contents (a content on which the parser throws was never stored), or left
\* by an earlier run on other contents
CacheChoices(cont, fl) ==
  { EmptyMap,
    [f \in {x \in DOMAIN cont : fl[x] # "parse"} |-> CacheEntry(f, cont[f])],
    [f \in DOMAIN cont |-> CacheEntry(f, PriorContent(cont, f))] }

AnalyzeInit ==
  /\ graph = NewGraph(Null)
  /\ cycles = <<>>
  /\ phase = "called"
  /\ \E t \in Trees : fs = t.fs /\ dirs = t.dirs
  /\ contents \in {c \in [fs \cap SourceFiles -> ContentMenu] :
                      \A f \in fs \cap SourceFiles : c[f] \in ContentsOf(f)}
  /\ faults \in FaultChoices(fs \cap SourceFiles)
  /\ options \in AnalyzeOptions
  /\ resolved = <<>>
  /\ ModuleIdle
  /\ pending = {}
  /\ files = <<>>
  /\ batchStart = 0
  /\ inflight = {}
  /\ started = <<>>
  /\ batchResults = EmptyMap
  /\ errors = <<>>
  /\ cache \in CacheChoices(contents, faults)
  /\ cacheStats = NoLookups
  /\ written = EmptyMap
  /\ progress = <<>>
  /\ result = [status |-> "pending"]

\* onProgress({phase: 'discovering'}), then walkConcurrent(rootDir) issues its
\* directory read
CallAnalyze ==
  /\ phase = "called"
  /\ phase' = "discovering"
  /\ progress' = Append(progress, [phase |-> "discovering"])
  /\ pending' = {Root}
  /\ UNCHANGED <<graph, cycles, envVars, moduleVars, resolved, files, batchStart, inflight, started,
                 batchResults, errors, cache, cacheStats, written, result>>

\* the directory read of walkConcurrent(d) completes: a failed read returns,
\* a successful one pushes the directory's files and walks its directories
ReaddirComplete(d) ==
  /\ phase = "discovering"
  /\ d \in pending
  /\ IF d \in dirs
     THEN /\ files' = files \o walkRegularFiles(fs, dirs, d, DEFAULT_EXTENSIONS,
                                                 options.ignorePatterns)
          /\ pending' = (pending \ {d})
                          \cup Range(walkDirectories(fs, dirs, d, DEFAULT_IGNORE_DIRS,
                                                     options.ignorePatterns))
     ELSE /\ files' = files
          /\ pending' = pending \ {d}
  /\ UNCHANGED <<graph, cycles, phase, envVars, moduleVars, resolved, batchStart, inflight, started,
                 batchResults, errors, cache, cacheStats, written, progress, result>>

\* the head of the batch loop with counter i: start the tasks of the next
\* batch, or, past the last file, find the cycles and return the result
BatchLoop(g, i, errs, prog) ==
  IF i < Len(files)
  THEN /\ graph' = g
       /\ phase' = "parsing"
       /\ batchStart' = i
       /\ inflight' = Range(batchOf(files, i, concurrencyOf(options)))
       /\ started' = started \o batchOf(files, i, concurrencyOf(options))
       /\ batchResults' = EmptyMap
       /\ errors' = errs
       /\ progress' = prog
       /\ UNCHANGED <<cycles, result>>
  ELSE \E found \in {findCycles(g)} :
         /\ graph' = g
         /\ phase' = "returned"
         /\ batchStart' = i
         /\ inflight' = {}
         /\ started' = started
         /\ batchResults' = EmptyMap
         /\ errors' = errs
         /\ progress' = Append(prog, [phase |-> "analyzing"])
         /\ cycles' = found
         /\ result' = analysisResult(g, found, errs)

\* every walk has returned: create the graph, add the nodes, enter the loop
DiscoveryComplete ==
  /\ phase = "discovering"
  /\ pending = {}
  /\ \E g \in {addAllNodes(NewGraph(Root), files, 1)} :
       BatchLoop(g, 0, errors, progress)
  /\ UNCHANGED <<envVars, moduleVars, resolved, pending, files, cache, cacheStats, written>>

\* the task of file f in the batch in flight settles (enableCache is left at
\* its default, true)
TaskComplete(f) ==
  /\ phase = "parsing"
  /\ f \in inflight
  /\ LET t == runTask(f, contents[f], faults[f], cache, TRUE)
     IN  /\ batchResults' = MapSet(batchResults, f, t.result)
         /\ cache' = t.cache
  /\ cacheStats' = statsAfterTask(cacheStats, f, contents[f], faults[f], cache, TRUE)
  /\ inflight' = inflight \ {f}
  /\ UNCHANGED <<graph, cycles, phase, envVars, moduleVars, resolved, pending, files, batchStart,
                 started, errors, written, progress, result>>

\* every task of the batch has settled: process the results in batch order,
\* report progress, go to the loop head
ProcessBatch ==
  /\ phase = "parsing"
  /\ inflight = {}
  /\ Len(progress) < MaxEvents
  /\ LET concurrency == concurrencyOf(options)
         batch == batchOf(files, batchStart, concurrency)
         results == [k \in DOMAIN batch |-> batchResults[batch[k]]]
         processedCount == Min(batchStart + concurrency, Len(files))
     IN  \E acc \in {processResults([graph |-> graph, errors |-> errors], fs,
                                    results, options)} :
           \E g \in {acc.graph}, errs \in {acc.errors} :
             BatchLoop(g, batchStart + concurrency, errs,
                       Append(progress, [phase |-> "parsing", current |-> processedCount,
                                         total |-> Len(files)]))
  /\ UNCHANGED <<envVars, moduleVars, resolved, pending, files, cache, cacheStats, written>>

AnalyzeNext ==
  \/ CallAnalyze
  \/ \E d \in {Root, DirSrc, DirModules, DirLib} : ReaddirComplete(d)
  \/ DiscoveryComplete
  \/ \E f \in SourceFiles : TaskComplete(f)
  \/ ProcessBatch

SpecAnalyze == AnalyzeInit /\ [][AnalyzeNext]_vars

\* the runs on files without module references
FairAnalyzeInit ==
  /\ AnalyzeInit
  /\ \A f \in DOMAIN contents : contents[f] = <<>>

\* those runs when the event loop runs every continuation that is ready: a
\* directory read, a file read and a settled batch are always followed up
FairSpecAnalyze == FairAnalyzeInit /\ [][AnalyzeNext]_vars /\ WF_vars(AnalyzeNext)

(***************************************************************************)
(* Specification of the ParseCache: any sequence of set, get, delete and   *)
(* clear calls on one cache                                                *)
(***************************************************************************)
MaxLookups == 3

CachePaths == {FileA, FileB}

CacheHashes == {"h1", "h2"}

\* the import lists stored in the cache specification
CacheImports == { <<>>, <<[source |-> SpecDotB, type |-> "esm"]>> }

CacheInit ==
  /\ graph = NewGraph("")
  /\ cycles = <<>>
  /\ phase = "cache"
  /\ fs = {}
  /\ dirs = {}
  /\ contents = EmptyMap
  /\ faults = EmptyMap
  /\ options = NoOptions
  /\ resolved = <<>>
  /\ ModuleIdle
  /\ RunIdle

\* cache.set(filePath, contentHash, imports)
CacheSet(filePath, contentHash, imports) ==
  /\ cache' = cacheSet(cache, filePath, contentHash, imports)
  /\ written' = MapSet(written, filePath,
                       [hash |-> contentHash, imports |-> imports,
                        replaced |-> filePath \in DOMAIN written])
  /\ UNCHANGED cacheStats

\* cache.get(filePath, contentHash)
CacheGet(filePath, contentHash) ==
  /\ cacheStats.hits + cacheStats.misses < MaxLookups
  /\ cacheStats' = countLookup(cacheStats, cacheGet(cache, filePath, contentHash).hit)
  /\ UNCHANGED <<cache, written>>

\* cache.delete(filePath)
CacheDelete(filePath) ==
  /\ cache' = cacheDelete(cache, filePath)
  /\ written' = [x \in DOMAIN written \ {filePath} |-> written[x]]
  /\ UNCHANGED cacheStats

\* cache.clear()
CacheClear ==
  /\ cache' = cacheClear(cache)
  /\ cacheStats' = NoLookups
  /\ written' = EmptyMap

CacheNext ==
  /\ \/ \E filePath \in CachePaths, contentHash \in CacheHashes, imports \in CacheImports :
          CacheSet(filePath, contentHash, imports)
     \/ \E filePath \in CachePaths, contentHash \in CacheHashes :
          CacheGet(filePath, contentHash)
     \/ \E filePath \in CachePaths : CacheDelete(filePath)
     \/ CacheClear
  /\ UNCHANGED <<graph, cycles, phase, envVars, moduleVars, resolved, pending, files, batchStart,
                 inflight, started, batchResults, errors, progress, result>>

SpecCache == CacheInit /\ [][CacheNext]_vars

(***************************************************************************)
(* Specification of the suggestion generator: a cycle and a graph given by *)
(* the caller, and addSuggestionsToAllCycles on them                       *)
(***************************************************************************)
MaxChainLen == 4

FileService == Root \o <<"/", "service", ".ts">>
FileTypes == Root \o <<"/", "types", ".ts">>
FileUtils == Root \o <<"/", "utils", ".ts">>
FileModel == Root \o <<"/", "models", "/", "user", ".ts">>

SuggestPaths == {FileService, FileTypes, FileUtils, FileModel}

\* the chains [p1, ..., pn, p1] of n distinct paths
SimpleChains ==
  UNION { { Append(sq, sq[1]) :
              sq \in {x \in [1..n -> SuggestPaths] :
                        \A i, j \in 1..n : i # j => x[i] # x[j]} } :
          n \in 1..Min(MaxChainLen, Cardinality(SuggestPaths)) }

\* edges of the graph that are not in the chain
ExtraEdges == << [from |-> FileService, to |-> FileUtils], [from |-> FileModel, to |-> FileTypes] >>

\* graph.addEdge for the edges of a list whose index is in keep, in order
RECURSIVE addEdges(_, _, _, _)
addEdges(g, edges, keep, i) ==
  IF i > Len(edges) THEN g
  ELSE addEdges(IF i \in keep THEN addEdge(g, edges[i].from, edges[i].to) ELSE g,
                edges, keep, i + 1)

\* the caller's cycle: a closed chain with a length field at least the number
\* of its edges (findCycles stores the size of the component); the caller's
\* graph: some edges of the chain and some other edges
SuggestInit ==
  /\ phase = "cycle"
  /\ \E chain \in SimpleChains, length \in 1..MaxChainLen,
        keep \in SUBSET (1..MaxChainLen), extra \in SUBSET (DOMAIN ExtraEdges) :
       /\ length >= Len(chain) - 1
       /\ cycles = <<[chain |-> chain, length |-> length]>>
       /\ graph = addEdges(addEdges(NewGraph(Root),
                                    getEdgesFromCycle([chain |-> chain]), keep, 1),
                           ExtraEdges, extra, 1)
  /\ fs = {}
  /\ dirs = {}
  /\ contents = EmptyMap
  /\ faults = EmptyMap
  /\ options = NoOptions
  /\ resolved = <<>>
  /\ ModuleIdle
  /\ RunIdle

\* addSuggestionsToAllCycles(cycles, graph)
AddSuggestions ==
  /\ phase = "cycle"
  /\ cycles' = addSuggestionsToAllCycles(cycles, graph)
  /\ phase' = "suggested"
  /\ UNCHANGED <<graph, analyzerVars, moduleVars>>

SuggestNext == AddSuggestions

SpecSuggest == SuggestInit /\ [][SuggestNext]_vars

(***************************************************************************)
(* Specification of the parser module: parseFile, analyzeFile and          *)
(* parseSource calls on the one shared tree-sitter parser, with the file   *)
(* reads of the asynchronous calls completing in any order                 *)
(***************************************************************************)
\* number of parseFile and analyzeFile calls of one behaviour
MaxCalls == 3

FileScript == Root \o <<"/", "s", ".js">>
FileView == Root \o <<"/", "v", ".jsx">>

ParserFiles == {FileA, FileCx, FileScript, FileView, FileJson}

SupportedLanguages == {"typescript", "tsx", "javascript", "jsx"}

\* the grammars cached by initParser: javascript and jsx are one grammar
languages ==
  [l \in SupportedLanguages |->
     CASE l = "typescript" -> "TypeScript.typescript"
       [] l = "tsx" -> "TypeScript.tsx"
       [] OTHER -> "JavaScript"]

ParserInit ==
  /\ graph = NewGraph("")
  /\ cycles = <<>>
  /\ phase = "parser"
  /\ AnalyzerIdle

parserFrame == <<graph, cycles, phase, analyzerVars, query, heapVars>>

\* parseFile up to its await: an unsupported extension throws before the
\* parser is touched, otherwise the language of the file is set on the shared
\* parser and the read of the file is started
ParseFile(filePath) ==
  /\ phase = "parser"
  /\ Len(calls) < MaxCalls
  /\ LET language == getLanguageForFile(filePath)
     IN  IF language = "null"
         THEN /\ calls' = Append(calls, [filePath |-> filePath,
                                         pc |-> "rejected", grammar |-> "null"])
              /\ UNCHANGED parserLanguage
         ELSE /\ parserLanguage' = languages[language]
              /\ calls' = Append(calls, [filePath |-> filePath,
                                         pc |-> "reading", grammar |-> "null"])
  /\ UNCHANGED parserFrame

\* analyzeFile returns the promise of parseFile
AnalyzeFile(filePath) == ParseFile(filePath)

\* the continuation of parseFile after its await: the content is parsed by
\* the shared parser with the language the parser has at that moment
ReadFileResolved(k) ==
  /\ phase = "parser"
  /\ calls[k].pc = "reading"
  /\ calls' = [calls EXCEPT ![k].pc = "resolved", ![k].grammar = parserLanguage]
  /\ UNCHANGED <<parserLanguage, parserFrame>>

\* the read fails and the call rejects without parsing
ReadFileRejected(k) ==
  /\ phase = "parser"
  /\ calls[k].pc = "reading"
  /\ calls' = [calls EXCEPT ![k].pc = "rejected"]
  /\ UNCHANGED <<parserLanguage, parserFrame>>

\* parseSource is synchronous: it sets its language and parses at once
ParseSource(language) ==
  /\ phase = "parser"
  /\ parserLanguage' = languages[language]
  /\ UNCHANGED <<calls, parserFrame>>

ParserNext ==
  \/ \E f \in ParserFiles : ParseFile(f)
  \/ \E f \in ParserFiles : AnalyzeFile(f)
  \/ \E k \in DOMAIN calls : ReadFileResolved(k)
  \/ \E k \in DOMAIN calls : ReadFileRejected(k)
  \/ \E l \in SupportedLanguages : ParseSource(l)

SpecParser == ParserInit /\ [][ParserNext]_vars

(***************************************************************************)
(* The DependencyGraph as objects: a nodes Map holds references to node    *)
(* objects, and a node object holds references to its two arrays.  A state *)
(* s of a graph is the heap and the graph's Map.                           *)
(***************************************************************************)
\* Map.get: the reference to the node object stored under filePath, or 0
MapGet(h, m, filePath) ==
  IF \E i \in DOMAIN m : h.objects[m[i]].filePath = filePath
  THEN m[CHOOSE i \in DOMAIN m : h.objects[m[i]].filePath = filePath]
  ELSE 0

\* addNode: a new node object with two new empty arrays
addNodeRef(s, filePath) ==
  IF MapGet(s.heap, s.map, filePath) = 0
  THEN LET n == Len(s.heap.arrays)
       IN  [heap |-> [objects |-> Append(s.heap.objects,
                                         [filePath |-> filePath,
                                          dependencies |-> n + 1,
                                          dependents |-> n + 2]),
                      arrays |-> s.heap.arrays \o << <<>>, <<>> >>],
            map |-> Append(s.map, Len(s.heap.objects) + 1)]
  ELSE s

\* addEdge: push appends to the arrays the two node objects refer to
addEdgeRef(s, from, to) ==
  LET s2 == addNodeRef(addNodeRef(s, from), to)
      fromNode == s2.heap.objects[MapGet(s2.heap, s2.map, from)]
      toNode == s2.heap.objects[MapGet(s2.heap, s2.map, to)]
      h3 == IF ~Includes(s2.heap.arrays[fromNode.dependencies], to)
            THEN [s2.heap EXCEPT !.arrays[fromNode.dependencies] = Append(@, to)]
            ELSE s2.heap
      h4 == IF ~Includes(h3.arrays[toNode.dependents], from)
            THEN [h3 EXCEPT !.arrays[toNode.dependents] = Append(@, from)]
            ELSE h3
  IN  [s2 EXCEPT !.heap = h4]

\* node.dependencies = node.dependencies.filter(d => d !== x): filter makes
\* a new array and the node object is made to refer to it
filterDependencies(h, node, x) ==
  [objects |-> [h.objects EXCEPT ![node].dependencies = Len(h.arrays) + 1],
   arrays |-> Append(h.arrays, FilterOut(h.arrays[h.objects[node].dependencies], x))]

filterDependents(h, node, x) ==
  [objects |-> [h.objects EXCEPT ![node].dependents = Len(h.arrays) + 1],
   arrays |-> Append(h.arrays, FilterOut(h.arrays[h.objects[node].dependents], x))]

removeEdgeRef(s, from, to) ==
  LET fromNode == MapGet(s.heap, s.map, from)
      toNode == MapGet(s.heap, s.map, to)
      h1 == IF fromNode # 0 THEN filterDependencies(s.heap, fromNode, to) ELSE s.heap
      h2 == IF toNode # 0 THEN filterDependents(h1, toNode, from) ELSE h1
  IN  [s EXCEPT !.heap = h2]

\* the first loop of removeNode, over the dependents of the node
RECURSIVE scrubDependencies(_, _, _, _, _)
scrubDependencies(h, m, list, i, filePath) ==
  IF i > Len(list) THEN h
  ELSE LET depNode == MapGet(h, m, list[i])
       IN  scrubDependencies(IF depNode # 0 THEN filterDependencies(h, depNode, filePath)
                             ELSE h,
                             m, list, i + 1, filePath)

\* the second loop of removeNode, over the dependencies of the node
RECURSIVE scrubDependents(_, _, _, _, _)
scrubDependents(h, m, list, i, filePath) ==
  IF i > Len(list) THEN h
  ELSE LET depNode == MapGet(h, m, list[i])
       IN  scrubDependents(IF depNode # 0 THEN filterDependents(h, depNode, filePath)
                           ELSE h,
                           m, list, i + 1, filePath)

removeNodeRef(s, filePath) ==
  LET node == MapGet(s.heap, s.map, filePath)
  IN  IF node = 0 THEN s
      ELSE LET h1 == scrubDependencies(s.heap, s.map,
                                       s.heap.arrays[s.heap.objects[node].dependents],
                                       1, filePath)
               h2 == scrubDependents(h1, s.map,
                                     h1.arrays[h1.objects[node].dependencies],
                                     1, filePath)
           IN  [heap |-> h2, map |-> SelectSeq(s.map, LAMBDA o : o # node)]

\* toData: new Map(this.nodes) copies the entries, which are references to
\* the node objects of the graph
toDataRef(m) == m

\* fromData: { ...node } is a new node object whose fields hold the values
\* of the fields of node, for the two lists the references to the arrays
RECURSIVE fromDataRef(_, _, _)
fromDataRef(s, data, i) ==
  IF i > Len(data) THEN s
  ELSE fromDataRef([heap |-> [s.heap EXCEPT !.objects = Append(@, s.heap.objects[data[i]])],
                    map |-> Append(s.map, Len(s.heap.objects) + 1)],
                   data, i + 1)

\* the graph a Map stands for: every node with the contents of its arrays
View(h, m) ==
  [nodes |-> [i \in DOMAIN m |->
                [filePath |-> h.objects[m[i]].filePath,
                 dependencies |-> h.arrays[h.objects[m[i]].dependencies],
                 dependents |-> h.arrays[h.objects[m[i]].dependents]]],
   rootDir |-> ""]

(***************************************************************************)
(* Specification of serialization: calls on a graph g, then                *)
(* restored = DependencyGraph.fromData(g.toData()), then calls on g and on *)
(* restored in any order                                                   *)
(***************************************************************************)
\* calls are made while the heap holds fewer arrays than this
MaxArrays == 4

HeapPaths == {"a", "b"}

HeapInit ==
  /\ graph = NewGraph("")
  /\ cycles = <<>>
  /\ phase = "building"
  /\ AnalyzerIdle

heapFrame == <<graph, cycles, analyzerVars, query, parserVars>>

\* the graphs a call can be made on
Targets == IF phase = "restored" THEN {"original", "restored"} ELSE {"original"}

MapOf(t) == IF t = "original" THEN original ELSE restored

\* a call on graph t has left the heap and the Map of s
Assign(t, s) ==
  /\ heap' = s.heap
  /\ original' = IF t = "original" THEN s.map ELSE original
  /\ restored' = IF t = "restored" THEN s.map ELSE restored
  /\ UNCHANGED <<snapshot, phase, heapFrame>>

OnAddNode(t, p) ==
  /\ t \in Targets
  /\ Len(heap.arrays) < MaxArrays
  /\ Assign(t, addNodeRef([heap |-> heap, map |-> MapOf(t)], p))
  /\ expected' = [expected EXCEPT ![t] = addNode(@, p)]

OnAddEdge(t, from, to) ==
  /\ t \in Targets
  /\ Len(heap.arrays) < MaxArrays
  /\ Assign(t, addEdgeRef([heap |-> heap, map |-> MapOf(t)], from, to))
  /\ expected' = [expected EXCEPT ![t] = addEdge(@, from, to)]

OnRemoveNode(t, p) ==
  /\ t \in Targets
  /\ Len(heap.arrays) < MaxArrays
  /\ Assign(t, removeNodeRef([heap |-> heap, map |-> MapOf(t)], p))
  /\ expected' = [expected EXCEPT ![t] = removeNode(@, p)]

OnRemoveEdge(t, from, to) ==
  /\ t \in Targets
  /\ Len(heap.arrays) < MaxArrays
  /\ Assign(t, removeEdgeRef([heap |-> heap, map |-> MapOf(t)], from, to))
  /\ expected' = [expected EXCEPT ![t] = removeEdge(@, from, to)]

\* restored = DependencyGraph.fromData(g.toData())
Restore ==
  /\ phase = "building"
  /\ phase' = "restored"
  /\ snapshot' = toDataRef(original)
  /\ LET s == fromDataRef([heap |-> heap, map |-> <<>>], toDataRef(original), 1)
     IN  /\ heap' = s.heap
         /\ restored' = s.map
  /\ expected' = [expected EXCEPT !.snapshot = expected.original,
                                  !.restored = expected.original]
  /\ UNCHANGED <<original, heapFrame>>

HeapNext ==
  \/ \E t \in {"original", "restored"}, p \in HeapPaths : OnAddNode(t, p)
  \/ \E t \in {"original", "restored"}, from \in HeapPaths, to \in HeapPaths :
       OnAddEdge(t, from, to)
  \/ \E t \in {"original", "restored"}, p \in HeapPaths : OnRemoveNode(t, p)
  \/ \E t \in {"original", "restored"}, from \in HeapPaths, to \in HeapPaths :
       OnRemoveEdge(t, from, to)
  \/ Restore

SpecSnapshot == HeapInit /\ [][HeapNext]_vars

(***************************************************************************)
(* Reachability, defined on the edge relation independently of Tarjan      *)
(***************************************************************************)
EdgeSet(g) == {e \in NodeSet(g) \X NodeSet(g) : hasEdge(g, e[1], e[2])}

Successors(g, S) == UNION {Range(getDependencies(g, s)) : s \in S}

RECURSIVE Grow(_, _)
Grow(g, S) ==
  LET T == S \cup Successors(g, S)
  IN  IF T = S THEN S ELSE Grow(g, T)

\* the nodes reached from u by a path of one or more edges
ReachableFrom(g, u) == Grow(g, Successors(g, {u}))

\* pairs <<u, v>> with a path of one or more edges from u to v in g
ReachOf(g) == UNION {{<<u, v>> : v \in ReachableFrom(g, u)} : u \in NodeSet(g)}

\* the nodes mutually reachable with u under the reachability relation R
ComponentOf(R, N, u) == {v \in N : v = u \/ (<<u, v>> \in R /\ <<v, u>> \in R)}

BigComponentsOf(R, N) ==
  {C \in {ComponentOf(R, N, u) : u \in N} : Cardinality(C) >= 2}

SelfLoopNodes(g) == {p \in NodeSet(g) : hasEdge(g, p, p)}

AcyclicGraph(g) == LET R == ReachOf(g) IN \A u \in NodeSet(g) : <<u, u>> \notin R

(***************************************************************************)
(* C2 - C5: findCycles                                                     *)
(***************************************************************************)
\* C2: in every cycle returned by findCycles every adjacent pair of the chain
\* is an edge of the graph and the chain's first element equals its last.
C2_ChainIsClosedPathOfEdges ==
  phase = "found" =>
    \A i \in DOMAIN cycles :
      LET chain == cycles[i].chain
      IN  /\ Len(chain) >= 2
          /\ chain[1] = chain[Len(chain)]
          /\ \A j \in 1..(Len(chain) - 1) : hasEdge(graph, chain[j], chain[j + 1])

\* findCycles returned the chain of a three-node component
C2_Witness ==
  /\ phase = "found"
  /\ \E i \in DOMAIN cycles :
       /\ Len(cycles[i].chain) = 4
       /\ Cardinality(Range(cycles[i].chain)) = 3

\* C3: an entry that comes from an SCC of two or more nodes has length =
\* chain.length - 1 = number of distinct nodes of the chain; a self-loop entry
\* has length 1.
C3_LengthMatchesChain ==
  phase = "found" =>
    \A i \in DOMAIN cycles :
      IF i <= Len(selfLoopsOf(graph))
      THEN cycles[i].length = 1
      ELSE /\ cycles[i].length = Len(cycles[i].chain) - 1
           /\ cycles[i].length = Cardinality(Range(cycles[i].chain))

\* C4: findCycles returns exactly one entry per strongly connected component
\* of two or more nodes (its chain inside the component), exactly one entry
\* [p, p] of length 1 per node p with an edge to itself, and nothing else.
C4_OneEntryPerSccAndSelfLoop ==
  phase = "found" =>
    LET Big == BigComponentsOf(ReachOf(graph), NodeSet(graph))
        Loops == SelfLoopNodes(graph)
    IN  /\ \A p \in Loops :
             Cardinality({i \in DOMAIN cycles :
                            cycles[i].chain = <<p, p>> /\ cycles[i].length = 1}) = 1
        /\ \A C \in Big :
             Cardinality({i \in DOMAIN cycles :
                            cycles[i].length # 1 /\ Range(cycles[i].chain) \subseteq C}) = 1
        /\ Len(cycles) = Cardinality(Loops) + Cardinality(Big)

\* two separate two-node components were reported, one entry each
C4_Witness ==
  /\ phase = "found"
  /\ Len(cycles) = 2
  /\ Cardinality(BigComponentsOf(ReachOf(graph), NodeSet(graph))) = 2

\* C5: on a graph with no directed cycle findCycles returns the empty list.
C5_AcyclicGivesNoCycles ==
  (phase = "found" /\ AcyclicGraph(graph)) => cycles = <<>>

\* findCycles ran on the diamond a -> b, a -> c, b -> d, c -> d
C5_Witness ==
  /\ phase = "found"
  /\ hasEdge(graph, "a", "b") /\ hasEdge(graph, "a", "c")
  /\ hasEdge(graph, "b", "d") /\ hasEdge(graph, "c", "d")
  /\ AcyclicGraph(graph)
  /\ cycles = <<>>

(***************************************************************************)
(* C7: alias resolution                                                    *)
(***************************************************************************)
\* the indices of the allowed extensions ext for which <root>/src/c + ext exists
AliasTargetHits ==
  {i \in DOMAIN DEFAULT_EXTENSIONS :
     Root \o <<"/", "src", "/", "c", DEFAULT_EXTENSIONS[i]>> \in fs}

\* C7: with pathAliases = {"@/*": ["src/*"]} and baseUrl = root, "@/c" resolves
\* from any file to <root>/src/c + the first allowed extension for which the
\* file exists; a specifier starting with "@" is external only when no alias
\* matches it.
C7_AliasResolvesAtSpecifier ==
  (phase = "resolved" /\ options = AliasOptions) =>
    /\ (resolved.importSource = SpecAtC /\ AliasTargetHits # {}) =>
         resolved.result =
           Root \o <<"/", "src", "/", "c",
                     DEFAULT_EXTENSIONS[CHOOSE i \in AliasTargetHits :
                                          \A j \in AliasTargetHits : i <= j]>>
    /\ (StartsWithAt(resolved.importSource) /\ isExternalImport(resolved.importSource)) =>
         resolvePathAlias(resolved.importSource, options.pathAliases, options.baseUrl) = Null

\* C6: every cycle of the AnalysisResult returned by analyzeDirectory has a
\* suggestions list, equal to generateCycleSuggestions of that cycle on the
\* final graph
C6_ResultCyclesCarrySuggestions ==
  result.status = "returned" =>
    \A i \in DOMAIN result.cycles :
      /\ "suggestions" \in DOMAIN result.cycles[i]
      /\ result.cycles[i].suggestions = generateCycleSuggestions(result.cycles[i], graph)

\* C8: after analyzeDirectory the nodes of the graph are exactly the
\* discovered files, and stats.totalFiles is the number of discovered files
C8_NodesAreDiscoveredFiles ==
  result.status = "returned" =>
    /\ NodeSet(result.graph) = Range(files)
    /\ result.stats.totalFiles = Len(files)

\* C9: a call on a root that does not exist or is not a directory never
\* returns an AnalysisResult
C9_InvalidRootYieldsNoResult ==
  Root \notin dirs => result.status # "returned"

\* the dependencies of file f when its task succeeds: the resolved imports of
\* its content, in source order, each once
RECURSIVE ExpectedDepsFrom(_, _, _, _)
ExpectedDepsFrom(f, imports, k, acc) ==
  IF k > Len(imports) THEN acc
  ELSE
    LET target == resolveImport(fs, f, imports[k].source, Root, DEFAULT_EXTENSIONS, options)
    IN  ExpectedDepsFrom(f, imports, k + 1,
                         IF target # Null /\ ~Includes(acc, target)
                         THEN Append(acc, target) ELSE acc)

ExpectedDeps(f) ==
  ExpectedDepsFrom(f, parseSource(contents[f], getLanguageForFile(f)), 1, <<>>)

ErrorEntries(f) == {i \in DOMAIN result.errors : result.errors[i].file = f}

\* C10: in the returned result a file whose read or parse task failed has
\* exactly one errors entry, no outgoing edge, and is a node; every other
\* discovered file has no errors entry and the outgoing edges of its imports
C10_FileErrorsAreLocal ==
  result.status = "returned" =>
    \A f \in Range(files) :
      IF faults[f] # "none"
      THEN /\ Cardinality(ErrorEntries(f)) = 1
           /\ hasNode(graph, f)
           /\ getDependencies(graph, f) = <<>>
           /\ ~\E n \in Range(result.graph.nodes) :
                 n.filePath = f /\ n.dependencies # <<>>
      ELSE /\ ErrorEntries(f) = {}
           /\ getDependencies(graph, f) = ExpectedDeps(f)

\* a returned analysis of three files in one batch where the first file's
\* task failed and a later file has edges
C10_Witness ==
  /\ result.status = "returned"
  /\ files = <<FileA, FileB, FileC>>
  /\ faults[FileA] # "none"
  /\ faults[FileC] = "none"
  /\ Len(result.errors) = 1
  /\ getDependencies(graph, FileC) = <<FileA, FileB>>
  /\ getDependents(graph, FileA) = <<FileC>>

\* the file list of a walk in which each directory is read to the end before
\* its next sibling: the files of d, then the walks of its directories in
\* listing order
RECURSIVE walkSequential(_)
walkSequential(d) ==
  IF d \notin dirs THEN <<>>
  ELSE
    LET subs == walkDirectories(fs, dirs, d, DEFAULT_IGNORE_DIRS, options.ignorePatterns)
        Sub[k \in 0..Len(subs)] ==
          IF k = 0 THEN <<>> ELSE Sub[k - 1] \o walkSequential(subs[k])
    IN  walkRegularFiles(fs, dirs, d, DEFAULT_EXTENSIONS, options.ignorePatterns)
          \o Sub[Len(subs)]

\* C11: once discovery is over, the ordered file list is the one of the tree,
\* whatever the order in which the directory reads completed
C11_DiscoveryOrderIsDeterministic ==
  phase \in {"parsing", "returned"} => files = walkSequential(Root)

\* the results of the tasks of the discovered files, each run alone on an
\* empty cache, in file order
ReferenceResults ==
  [k \in DOMAIN files |->
     runTask(files[k], contents[files[k]], faults[files[k]], EmptyMap, FALSE).result]

\* the graph and the errors of one pass over the files in file order
ReferenceRun ==
  processResults([graph |-> addAllNodes(NewGraph(Root), files, 1), errors |-> <<>>],
                 fs, ReferenceResults, options)

\* C12: for a given file list and contents the returned graph (node and
\* adjacency order), cycles and errors are those of one pass over the files
\* in order with fresh parses, whatever the completion order of the tasks,
\* the batch size and the state of the cache
C12_ResultIsDeterministic ==
  result.status = "returned" =>
    /\ result.graph = toData(ReferenceRun.graph)
    /\ result.errors = ReferenceRun.errors
    /\ result.cycles = findCycles(ReferenceRun.graph)

\* a returned analysis of three files in two batches that started on a cache
\* holding other contents, with a cycle in the result
C12_Witness ==
  /\ result.status = "returned"
  /\ files = <<FileA, FileB, FileC>>
  /\ options.hasConcurrency /\ options.concurrency = 2
  /\ Len(result.cycles) > 0
  /\ \A f \in Range(files) : cache[f].imports # <<>>
  /\ \E f \in Range(files) : contents[f] = <<>>

\* C13: get(p, h) returns the imports of the last set(p, h, R) made since the
\* last delete(p) or clear(), and null for every other hash and for a path
\* with no such set
C13_CacheRoundTrip ==
  phase = "cache" =>
    \A p \in CachePaths, h \in CacheHashes :
      cacheGet(cache, p, h) =
        IF p \in DOMAIN written /\ written[p].hash = h
        THEN [hit |-> TRUE, imports |-> written[p].imports]
        ELSE [hit |-> FALSE, imports |-> <<>>]

\* FileA was set again over an earlier entry, FileB has no entry, and both a
\* hit and a miss were counted
C13_Witness ==
  /\ phase = "cache"
  /\ FileA \in DOMAIN written
  /\ written[FileA].replaced
  /\ written[FileA].hash = "h2"
  /\ ~cacheHas(cache, FileB)
  /\ cacheSize(cache) = 1
  /\ cacheStats.hits > 0
  /\ cacheStats.misses > 0

SuggestionTypes(suggestions) == [i \in DOMAIN suggestions |-> suggestions[i].type]

ExpectedTypes(length) ==
  IF length = 1 THEN <<"reorder-imports">>
  ELSE IF length = 2 THEN <<"extract-interface", "merge-files", "lazy-import">>
  ELSE IF length = 3 THEN <<"extract-interface", "dependency-injection", "lazy-import">>
  ELSE <<"extract-interface", "dependency-injection", "lazy-import", "reorder-imports">>

\* C14: the types of the suggestions of a cycle, in order, are those of its
\* length, and a cycle of length 1 on p has the target edge (p, p)
C14_TypesFollowLength ==
  phase = "suggested" =>
    \A i \in DOMAIN cycles :
      /\ SuggestionTypes(cycles[i].suggestions) = ExpectedTypes(cycles[i].length)
      /\ cycles[i].length = 1 =>
           /\ cycles[i].suggestions[1].hasTargetEdge
           /\ cycles[i].suggestions[1].targetEdge =
                [from |-> cycles[i].chain[1], to |-> cycles[i].chain[1]]

\* suggestions were generated for a chain of four files
C14_Witness ==
  /\ phase = "suggested"
  /\ cycles[1].length = 4
  /\ Len(cycles[1].chain) = 5
  /\ Len(cycles[1].suggestions) = 4

\* the edges of a chain, in chain order
ChainEdges(chain) == [k \in 1..(Len(chain) - 1) |-> [from |-> chain[k], to |-> chain[k + 1]]]

ContainsTypeMarker(path) ==
  \E k \in DOMAIN path : path[k] \in {"types", ".d.ts", "interfaces", "models"}

\* the sort key of an edge: likely type imports first, then lower strength
EdgeKey(e) ==
  [rank |-> IF ContainsTypeMarker(e.to) THEN 0 ELSE 1,
   strength |-> IF \E x \in EdgeSet(graph) : x[1] = e.from THEN 1 ELSE 0]

KeyLess(a, b) == a.rank < b.rank \/ (a.rank = b.rank /\ a.strength < b.strength)

\* the index of the first edge of the chain that no edge precedes in the order
WeakestIndex(chain) ==
  LET E == ChainEdges(chain)
      minimal == {k \in DOMAIN E : \A j \in DOMAIN E : ~KeyLess(EdgeKey(E[j]), EdgeKey(E[k]))}
  IN  CHOOSE k \in minimal : \A j \in minimal : k <= j

NoDuplicates(list) == \A i, j \in DOMAIN list : i # j => list[i] # list[j]

\* C16: in every graph state addEdge(from, to) makes from and to nodes and
\* (from, to) an edge, a second addEdge(from, to) changes nothing, no
\* adjacency list holds a path twice, and edgeCount is the number of ordered
\* pairs that are edges
C16_AddEdgeIdempotent ==
  phase = "mutating" =>
    /\ \A from \in Paths, to \in Paths :
         LET once == addEdge(graph, from, to)
         IN  /\ hasNode(once, from)
             /\ hasNode(once, to)
             /\ hasEdge(once, from, to)
             /\ Includes(getDependents(once, to), from)
             /\ addEdge(once, from, to) = once
             /\ hasEdge(graph, from, to) => once = graph
    /\ \A u \in NodeSet(graph) :
         /\ NoDuplicates(getDependencies(graph, u))
         /\ NoDuplicates(getDependents(graph, u))
    /\ edgeCount(graph) = Cardinality(EdgeSet(graph))

\* a graph with a self-loop and a pair of opposite edges, on which addEdge of
\* an existing edge and addEdge to an absent node can both be applied
C16_Witness ==
  /\ phase = "mutating"
  /\ hasEdge(graph, "b", "b")
  /\ hasEdge(graph, "a", "b")
  /\ hasEdge(graph, "b", "a")
  /\ edgeCount(graph) = 3
  /\ ~hasNode(graph, "c")
  /\ nodeCount(addEdge(graph, "b", "c")) = 3
  /\ addEdge(graph, "a", "b") = graph

\* the edges of g with no end at p
EdgesAwayFrom(g, p) == {e \in EdgeSet(g) : e[1] # p /\ e[2] # p}

\* C17: in every graph state, after removeNode(p) the path p is not a node
\* and is in no adjacency list, the other nodes and the edges between them
\* are unchanged, and removeNode of an absent path changes nothing
C17_RemoveNodeScrubs ==
  phase = "mutating" =>
    \A p \in Paths :
      LET after == removeNode(graph, p)
      IN  /\ ~hasNode(after, p)
          /\ NodeSet(after) = NodeSet(graph) \ {p}
          /\ \A u \in NodeSet(after) :
               /\ getDependencies(after, u) = FilterOut(getDependencies(graph, u), p)
               /\ getDependents(after, u) = FilterOut(getDependents(graph, u), p)
               /\ ~Includes(getDependencies(after, u), p)
               /\ ~Includes(getDependents(after, u), p)
          /\ EdgeSet(after) = EdgesAwayFrom(graph, p)
          /\ ~hasNode(graph, p) => after = graph

\* node b has an incoming edge, an outgoing edge and a self-loop, next to an
\* edge that does not touch it, and node c is absent
C17_Witness ==
  /\ phase = "mutating"
  /\ hasEdge(graph, "a", "b")
  /\ hasEdge(graph, "b", "a")
  /\ hasEdge(graph, "b", "b")
  /\ hasEdge(graph, "a", "a")
  /\ ~hasNode(graph, "c")
  /\ edgeCount(removeNode(graph, "b")) = 1
  /\ removeNode(graph, "c") = graph

\* the paths given to tryResolve
ResolveTargets ==
  { Root \o <<"/", "b">>, Root \o <<"/", "b", ".js">>, Root \o <<"/", "src">>,
    Root \o <<"/", "src", "/", "c">>, Root \o <<"/", "src", "/", "c", ".js">>,
    FileJson, FileCx, Root \o <<"/", "src", "/", "index">>, Root \o <<"/", "none">> }

\* the candidates of P in the order of the claim
CandidatesOf(P, extensions) ==
  <<P>>
    \o [i \in DOMAIN extensions |-> P \o <<extensions[i]>>]
    \o [i \in DOMAIN extensions |-> P \o <<"/", "index", extensions[i]>>]
    \o (IF P[Len(P)] = ".js"
        THEN <<SubSeq(P, 1, Len(P) - 1) \o <<".ts">>, SubSeq(P, 1, Len(P) - 1) \o <<".tsx">>>>
        ELSE <<>>)

\* C18: tryResolve(P, extensions) is the first candidate of P that is an
\* existing regular file, and nothing when no candidate is
C18_TryResolveOrder ==
  phase \in {"idle", "resolved"} =>
    \A P \in ResolveTargets :
      LET cand == CandidatesOf(P, DEFAULT_EXTENSIONS)
          hits == {k \in DOMAIN cand : cand[k] \in fs}
          r == tryResolve(fs, P, DEFAULT_EXTENSIONS)
      IN  IF hits = {} THEN r = Null
          ELSE r = cand[CHOOSE k \in hits : \A j \in hits : k <= j]

\* "./src" was resolved to /r/src.ts while /r/src/index.ts also exists, and
\* /r/src/c.js resolves to the .ts file while the .tsx file also exists
C18_Witness ==
  /\ phase = "resolved"
  /\ {FileSrcTs, FileIndex, FileC, FileCx} \subseteq fs
  /\ resolved.importSource = SpecDotSrc
  /\ resolved.fromFile = FileA
  /\ resolved.result = FileSrcTs
  /\ tryResolve(fs, Root \o <<"/", "src", "/", "c", ".js">>, DEFAULT_EXTENSIONS) = FileC

ParsingEvents == {k \in DOMAIN progress : progress[k].phase = "parsing"}

\* C19: the progress events are one discovering event, then parsing events,
\* then one analyzing event at the return; the current values of the parsing
\* events increase strictly and never exceed total, and the last one equals
\* total when files were discovered
C19_ProgressOrder ==
  /\ \A k \in DOMAIN progress : progress[k].phase = "discovering" <=> k = 1
  /\ \A k \in DOMAIN progress :
       progress[k].phase = "analyzing" => (k = Len(progress) /\ phase = "returned")
  /\ \A j \in ParsingEvents, k \in ParsingEvents :
       j < k => progress[j].current < progress[k].current
  /\ \A k \in ParsingEvents :
       progress[k].current <= progress[k].total /\ progress[k].total = Len(files)
  /\ phase = "returned" =>
       /\ progress[Len(progress)].phase = "analyzing"
       /\ Len(files) > 0 =>
            /\ (Len(progress) - 1) \in ParsingEvents
            /\ progress[Len(progress) - 1].current = Len(files)

\* C20: with concurrency c >= 1, at most c tasks are in flight and they are
\* tasks of the current batch; when the tasks of a batch are started, the
\* files of the batches before it have their results processed and their
\* edges in the graph; no file gets two tasks, and at the return every
\* discovered file has had exactly one
C20_BatchesAreBounded ==
  LET c == concurrencyOf(options)
  IN  (c >= 1 /\ phase \in {"parsing", "returned"}) =>
        /\ Cardinality(inflight) <= c
        /\ inflight \subseteq Range(batchOf(files, batchStart, c))
        /\ NoDuplicates(started)
        /\ phase = "parsing" =>
             /\ started = SubSeq(files, 1, Min(batchStart + c, Len(files)))
             /\ \A k \in 1..batchStart :
                  /\ faults[files[k]] = "none" =>
                       getDependencies(graph, files[k]) = ExpectedDeps(files[k])
                  /\ faults[files[k]] # "none" =>
                       \E e \in DOMAIN errors : errors[e].file = files[k]
             /\ \A k \in (batchStart + 1)..Len(files) :
                  getDependencies(graph, files[k]) = <<>>
        /\ phase = "returned" => started = files

\* the second batch of a run with concurrency 2 over three files is in
\* flight, and the first batch has put edges in the graph
C20_Witness ==
  /\ phase = "parsing"
  /\ options.hasConcurrency /\ options.concurrency = 2
  /\ files = <<FileA, FileB, FileC>>
  /\ batchStart = 2
  /\ inflight = {FileC}
  /\ getDependencies(graph, FileA) = <<FileB>>
  /\ getDependencies(graph, FileB) = <<FileA, FileC>>
  /\ contents[FileC] = ContentUp

(***************************************************************************)
(* C21: the strongly connected components                                  *)
(***************************************************************************)
\* u and v are the same node, or each is reached from the other
MutuallyReachable(R, u, v) == u = v \/ (<<u, v>> \in R /\ <<v, u>> \in R)

\* the positions <<i, j>> of node n in a list of lists
PositionsOf(lists, n) ==
  {pos \in UNION {{<<i, j>> : j \in DOMAIN lists[i]} : i \in DOMAIN lists} :
     lists[pos[1]][pos[2]] = n}

\* C21: findStronglyConnectedComponents returns a partition of the graph's
\* nodes (every node in exactly one component, once), and two nodes share a
\* component iff each is reachable from the other, for every graph and every
\* insertion order of nodes and edges.
C21_SccsPartitionByMutualReachability ==
  (phase = "queried" /\ query.op = "findStronglyConnectedComponents") =>
    LET sccs == query.answer
        N == NodeSet(graph)
        R == ReachOf(graph)
    IN  /\ \A i \in DOMAIN sccs : Len(sccs[i]) > 0 /\ Range(sccs[i]) \subseteq N
        /\ \A n \in N : Cardinality(PositionsOf(sccs, n)) = 1
        /\ \A u \in N, v \in N :
             (\E i \in DOMAIN sccs : u \in Range(sccs[i]) /\ v \in Range(sccs[i]))
               <=> MutuallyReachable(R, u, v)

\* the components of a graph with a two-node component from which a third
\* node is reached, the third node having been added first
C21_Witness ==
  /\ phase = "queried" /\ query.op = "findStronglyConnectedComponents"
  /\ nodeCount(graph) = 3 /\ getNodes(graph)[1] = "c"
  /\ hasEdge(graph, "a", "b") /\ hasEdge(graph, "b", "a") /\ hasEdge(graph, "b", "c")
  /\ Len(query.answer) = 2
  /\ \E i \in DOMAIN query.answer : Range(query.answer[i]) = {"a", "b"}

(***************************************************************************)
(* C22: a self-loop inside a larger component                              *)
(***************************************************************************)
\* C22: when a node u of a strongly connected component of two or more nodes
\* has an edge to itself, findCycles reports the entry [u, u] of length 1 and,
\* as another entry, the cycle of the component, whose chain visits at least
\* two distinct nodes of the component (it is not the path [u, u]).
C22_SelfLoopAndComponentCycle ==
  phase = "found" =>
    LET N == NodeSet(graph)
        R == ReachOf(graph)
        loops == Len(selfLoopsOf(graph))
    IN  \A u \in SelfLoopNodes(graph) :
          LET C == ComponentOf(R, N, u)
          IN  Cardinality(C) >= 2 =>
                /\ \E i \in 1..loops :
                     cycles[i].chain = <<u, u>> /\ cycles[i].length = 1
                /\ \E j \in (loops + 1)..Len(cycles) :
                     /\ Range(cycles[j].chain) \subseteq C
                     /\ Cardinality(Range(cycles[j].chain)) >= 2

(***************************************************************************)
(* C23: findCyclesInvolvingFile                                            *)
(***************************************************************************)
\* C23: findCyclesInvolvingFile(graph, f) returns a non-empty list iff f lies
\* on a directed cycle of the graph (f reaches itself by one or more edges),
\* and the chain of every returned cycle contains f.
C23_InvolvingFileIffOnCycle ==
  (phase = "queried" /\ query.op = "findCyclesInvolvingFile") =>
    LET f == query.arg
    IN  /\ (query.answer # <<>>) <=> (f \in ReachableFrom(graph, f))
        /\ \A i \in DOMAIN query.answer : f \in Range(query.answer[i].chain)

(***************************************************************************)
(* C24: a wildcard alias with several replacements                         *)
(***************************************************************************)
\* the path that the k-th replacement template of a wildcard alias entry
\* gives for the specifier
SubstitutedPath(entry, importSource, baseUrl, k) ==
  LET prefix == DropLast(entry.pattern, 2)
      rest == SliceFrom(importSource, Len(prefix) + 1)
      replacement == entry.replacements[k]
      replacementBase == IF EndsWith(replacement, <<"/", "*">>)
                         THEN DropLast(replacement, 2)
                         ELSE replacement
  IN  pathResolve(pathResolve(baseUrl, replacementBase), rest)

\* the replacements of the entry whose substituted path resolves to a file
ResolvingReplacements(entry, importSource, baseUrl) ==
  {k \in DOMAIN entry.replacements :
     tryResolve(fs, SubstitutedPath(entry, importSource, baseUrl, k),
                DEFAULT_EXTENSIONS) # Null}

\* C24: for a specifier matched by a wildcard alias with several replacement
\* templates, resolveImport returns the file of the first replacement, in
\* declared order, whose substituted path resolves: an earlier replacement
\* that resolves to no file does not prevent a later one from being returned.
C24_FirstResolvingReplacement ==
  (phase = "resolved" /\ options = MultiAliasOptions) =>
    LET entry == options.pathAliases[1]
        src == resolved.importSource
        hits == ResolvingReplacements(entry, src, options.baseUrl)
    IN  (StartsWith(src, DropLast(entry.pattern, 2) \o <<"/">>) /\ hits # {}) =>
          resolved.result =
            tryResolve(fs,
                       SubstitutedPath(entry, src, options.baseUrl,
                                       CHOOSE k \in hits : \A j \in hits : k <= j),
                       DEFAULT_EXTENSIONS)

(***************************************************************************)
(* C25, C26: findAllSimpleCycles.  The elementary cycles are defined on    *)
(* the edge relation, independently of the search.                         *)
(***************************************************************************)
\* the sequences of one or more distinct elements of S
DistinctSeqs(S) ==
  UNION {{c \in [1..k -> S] : \A i, j \in 1..k : i # j => c[i] # c[j]} :
           k \in 1..Cardinality(S)}

\* the elementary cycles of g, each once for every node it can start at: the
\* sequences of distinct nodes in which every node has an edge to the next
\* and the last has an edge to the first
ElementaryCycleRotations(g) ==
  {c \in DistinctSeqs(NodeSet(g)) :
     /\ \A i \in 1..(Len(c) - 1) : hasEdge(g, c[i], c[i + 1])
     /\ hasEdge(g, c[Len(c)], c[1])}

\* the sequence c read from its k-th element round to the element before it
RotateTo(c, k) == SubSeq(c, k, Len(c)) \o SubSeq(c, 1, k - 1)

\* the closed chain is a rotation of the cycle c
ChainIsRotationOf(chain, c) ==
  /\ Len(chain) = Len(c) + 1
  /\ \E k \in DOMAIN c : chain = Append(RotateTo(c, k), c[k])

\* C25: findAllSimpleCycles(graph, maxCycles) never returns more than
\* maxCycles cycles; when the graph has fewer than maxCycles elementary cycles
\* counted with all their rotations, it returns every elementary cycle of the
\* graph (self-loops included) exactly once up to rotation and nothing else,
\* each as a closed chain of real edges with length = chain.length - 1.
C25_SimpleCyclesBoundedAndComplete ==
  (phase = "queried" /\ query.op = "findAllSimpleCycles") =>
    LET maxCycles == query.arg
        found == query.answer
        rotations == ElementaryCycleRotations(graph)
    IN  /\ Len(found) <= maxCycles
        /\ Cardinality(rotations) < maxCycles =>
             /\ \A c \in rotations :
                  Cardinality({i \in DOMAIN found : ChainIsRotationOf(found[i].chain, c)}) = 1
             /\ \A i \in DOMAIN found :
                  /\ \E c \in rotations : ChainIsRotationOf(found[i].chain, c)
                  /\ found[i].chain[1] = found[i].chain[Len(found[i].chain)]
                  /\ \A j \in 1..(Len(found[i].chain) - 1) :
                       hasEdge(graph, found[i].chain[j], found[i].chain[j + 1])
                  /\ found[i].length = Len(found[i].chain) - 1

\* the two cycles through node b were both returned, each once
C25_Witness ==
  /\ phase = "queried" /\ query.op = "findAllSimpleCycles"
  /\ query.arg = DEFAULT_MAX_CYCLES
  /\ hasEdge(graph, "a", "b") /\ hasEdge(graph, "b", "a")
  /\ hasEdge(graph, "b", "c") /\ hasEdge(graph, "c", "b")
  /\ Len(query.answer) = 2

\* C26: every chain returned by findAllSimpleCycles is in minimum-rotation
\* canonical form: its first (and last) element is the smallest node of the
\* cycle in string order.
C26_ChainsAreCanonical ==
  (phase = "queried" /\ query.op = "findAllSimpleCycles") =>
    \A i \in DOMAIN query.answer :
      LET chain == query.answer[i].chain
      IN  /\ chain[1] = chain[Len(chain)]
          /\ \A n \in Range(chain) : ~StringLess(n, chain[1])

(***************************************************************************)
(* C27: transitive dependencies and dependents                             *)
(***************************************************************************)
\* the nodes from which p is reached by a path of one or more edges
ReachingTo(g, p) == {u \in NodeSet(g) : p \in ReachableFrom(g, u)}

\* C27: getTransitiveDependencies(p) returns exactly the set of nodes reachable
\* from p by a path of one or more edges, so it contains p iff p lies on a
\* cycle; getTransitiveDependents(p) is the same set on the reversed edges;
\* both return on cyclic graphs.
C27_TransitiveSetsAreReachability ==
  /\ (phase = "queried" /\ query.op = "getTransitiveDependencies") =>
       /\ query.answer = ReachableFrom(graph, query.arg)
       /\ (query.arg \in query.answer) <=>
            (\E c \in ElementaryCycleRotations(graph) : c[1] = query.arg)
  /\ (phase = "queried" /\ query.op = "getTransitiveDependents") =>
       /\ query.answer = ReachingTo(graph, query.arg)
       /\ (query.arg \in query.answer) <=>
            (\E c \in ElementaryCycleRotations(graph) : c[1] = query.arg)

\* the dependencies of a node on a two-node cycle with an edge leaving it: the
\* node itself, its partner and the node outside the cycle
C27_Witness ==
  /\ phase = "queried" /\ query.op = "getTransitiveDependencies"
  /\ query.arg = "a"
  /\ hasEdge(graph, "a", "b") /\ hasEdge(graph, "b", "a") /\ hasEdge(graph, "b", "c")
  /\ query.answer = {"a", "b", "c"}

(***************************************************************************)
(* C28: termination of analyzeDirectory                                    *)
(***************************************************************************)
\* C28: for every integer value of the concurrency option (0 and negative
\* values included) and every list of discovered files, analyzeDirectory
\* reaches the analyzing phase and returns a result, having created a parse
\* task for every discovered file exactly once.
C28_AnalyzeTerminates ==
  <>(/\ result.status = "returned"
     /\ progress[Len(progress)].phase = "analyzing"
     /\ Len(started) = Len(files)
     /\ Range(started) = Range(files))

(***************************************************************************)
(* C29: concurrent parseFile calls                                         *)
(***************************************************************************)
\* C29: whatever the order in which the file reads of concurrent parseFile
\* and analyzeFile calls complete, every file that was parsed was parsed with
\* the grammar mapped from its own extension.
C29_EachFileParsedWithOwnGrammar ==
  \A k \in DOMAIN calls :
    calls[k].pc = "resolved" =>
      calls[k].grammar = languages[getLanguageForFile(calls[k].filePath)]

(***************************************************************************)
(* C30: independence of a restored graph                                   *)
(***************************************************************************)
\* the graph is bidirectionally consistent
Consistent(g) ==
  /\ \A u \in NodeSet(g), v \in NodeSet(g) :
       Includes(getDependencies(g, u), v) <=> Includes(getDependents(g, v), u)
  /\ \A u \in NodeSet(g) :
       /\ Range(getDependencies(g, u)) \subseteq NodeSet(g)
       /\ Range(getDependents(g, u)) \subseteq NodeSet(g)

\* C30: after restored = DependencyGraph.fromData(g.toData()), whatever
\* addNode, addEdge, removeNode and removeEdge calls are made on restored and
\* on g, each of g, the snapshot and restored has the nodes and the adjacency
\* lists that the calls made on it give it, and g is bidirectionally
\* consistent.
C30_RestoredGraphIsIndependent ==
  phase = "restored" =>
    /\ View(heap, original) = expected.original
    /\ View(heap, snapshot) = expected.snapshot
    /\ View(heap, restored) = expected.restored
    /\ Consistent(View(heap, original))

\* before the graph is serialized, the graph of objects is the graph of the
\* graph specification
HeapModelAgrees ==
  phase = "building" => View(heap, original) = expected.original

====
